---- MODULE Spec2Model ----
(***************************************************************************)
(* Model of the muni-quick-tracker server (src/main.go): the background    *)
(* cache refresher (startCacheRefresher / refreshCache), the upstream      *)
(* client (fetchStopArrivals), the shared ArrivalsCache guarded by a       *)
(* sync.RWMutex, and the /api/arrivals handler (handleArrivals) with its   *)
(* read-time projection and detectQualityIssues.                           *)
(*                                                                         *)
(* Time is wall-clock milliseconds, local time, counted from local         *)
(* midnight of the day the process starts.  Go strings that the program    *)
(* only stores and compares are TLA+ strings; the display strings made by  *)
(* time.Format are sequences of one-character strings.  An RFC3339         *)
(* timestamp string is a record: kind "empty" (the empty string), "bad"    *)
(* (fails time.Parse) or "rfc3339" with the instant t it parses to.        *)
(* A slice is a header [ptr, len] into heap, the store of backing arrays.  *)
(*                                                                         *)
(* Spec is the whole program from process start.  SpecServing follows the  *)
(* handlers alone, between the initial cycle's cache write and the first   *)
(* tick, over a range of upstream schedules and times of day.  SpecFetch   *)
(* follows the first upstream call over a range of replies, SpecUnattended *)
(* the server with its default settings and no client for an hour, and     *)
(* SpecBrowser the page (src/static/app.js) in one browser tab.            *)
(* SpecScheduled is Spec with the fairness of the Go scheduler.            *)
(***************************************************************************)
EXTENDS Integers, Sequences, FiniteSets, TLC

\* ------------------------------------------------------------------ bounds
\* Number of refresh cycles (the initial one included) the model runs.
MaxCycles == 2
\* Number of concurrent request-handling goroutines.
NumReaders == 2
\* Minutes of wall-clock time the serving window is followed for.
MaxElapsedMinutes == 2
\* Number of vehicle visits in one upstream reply examined on its own.
MaxVisits == 4
\* Hours the server is followed for when left running with no client.
ObservedHours == 1
\* Number of visibility changes of the browser tab that are followed.
MaxPageEvents == 4

\* ------------------------------------------------------- program constants
\* time.Sleep(1500 * time.Millisecond)
PacingMs == 1500
\* refreshInterval = 4 * time.Minute, in minutes
DefaultRefreshMinutes == 4
\* if len(validArrivals) > 3
MaxArrivals == 3
\* if gap > 40
GapMinutes == 40
\* firstMinutes > 90, firstMinutes < 90
FarMinutes == 90

\* README, Rate Limits: "allows 60 requests per hour", "refreshes every 5
\* minutes", "4 directions x 12 refreshes/hour = 48 requests/hour"
UpstreamQuota == 60
DocumentedRefreshMinutes == 5
DocumentedDirections == 4
DocumentedRefreshesPerHour == 12

MsPerSecond == 1000
MsPerMinute == 60 * MsPerSecond
MsPerHour == 60 * MsPerMinute
MsPerDay == 24 * MsPerHour

\* ---------------------------------------------------------- configuration
\* The validated Config value (loadConfig): at least one stop.
Stops ==
  << [Name |-> "4th & King", Line |-> "T", Agency |-> "",
      Directions |-> << [Label |-> "Chinatown", StopID |-> "17166"],
                        [Label |-> "Sunnydale", StopID |-> "17397"] >>],
     [Name |-> "Caltrain", Line |-> "CT", Agency |-> "CT",
      Directions |-> << [Label |-> "South", StopID |-> "70012"] >>] >>

\* config.CacheRefreshInterval values (seconds) the model starts with: one
\* shorter than a refresh cycle, so that ticks fall due while a cycle runs.
CacheRefreshIntervals == {2}

\* Local wall-clock time at process start: 08:00:00.
StartClock == 8 * MsPerHour

Readers == 1..NumReaders

RECURSIVE FlatStopIDsFrom(_)
FlatStopIDsFrom(i) ==
  IF i > Len(Stops) THEN << >>
  ELSE [j \in 1..Len(Stops[i].Directions) |-> Stops[i].Directions[j].StopID]
       \o FlatStopIDsFrom(i + 1)

\* Stop identifiers in flattened configuration order.
FlatStopIDs == FlatStopIDsFrom(1)

\* totalDirections
TotalDirections == Len(FlatStopIDs)

\* ------------------------------------------------------------------ values
EmptyStr == [kind |-> "empty", t |-> 0]
BadStr == [kind |-> "bad", t |-> 0]
TimeStr(t) == [kind |-> "rfc3339", t |-> t]

\* The zero time.Time
ZeroTime == 0 - 1

NilSlice == [ptr |-> 0, len |-> 0]

\* Zero values of the response structures.
ZeroDirection ==
  [Label |-> "", StopID |-> "", Arrivals |-> << >>, Error |-> "",
   QualityWarning |-> "", QualityLevel |-> ""]
ZeroStop == [Name |-> "", Line |-> "", Directions |-> << >>]
\* ArrivalsResponse as held in memory: Stops is a slice header.
ZeroData == [Stops |-> NilSlice, LastUpdated |-> << >>]
\* ArrivalsResponse as encoded to the client: Stops is the encoded array.
NoResponse == [Stops |-> << >>, LastUpdated |-> << >>]

Loading == << "L", "o", "a", "d", "i", "n", "g", ".", ".", "." >>
UnableToFetch == "Unable to fetch"

\* ------------------------------------------------------------ time.Format
Digit(n) == << "0", "1", "2", "3", "4", "5", "6", "7", "8", "9" >>[n + 1]
TwoDigits(n) == << Digit(n \div 10), Digit(n % 10) >>
Decimal(n) == IF n < 10 THEN << Digit(n) >> ELSE TwoDigits(n)

\* now.Hour()
Hour(t) == (t % MsPerDay) \div MsPerHour

\* t.Format("3:04:05 PM")
Format(t) ==
  LET h == Hour(t)
      m == (t % MsPerHour) \div MsPerMinute
      s == (t % MsPerMinute) \div MsPerSecond
      h12 == IF h % 12 = 0 THEN 12 ELSE h % 12
  IN Decimal(h12) \o << ":" >> \o TwoDigits(m) \o << ":" >> \o TwoDigits(s)
     \o << " " >> \o (IF h < 12 THEN << "A", "M" >> ELSE << "P", "M" >>)

\* int(d.Minutes()) for a duration d in ms: conversion truncates toward zero.
TruncMinutes(d) ==
  IF d >= 0 THEN d \div MsPerMinute ELSE 0 - ((0 - d) \div MsPerMinute)

\* time.Parse(time.RFC3339, s) succeeds
ParseOK(s) == s.kind = "rfc3339"

\* ------------------------------------------------------ fetchStopArrivals
\* What the upstream answers to one GET: transport tells whether httpClient.Get
\* returned a response, readable whether io.ReadAll succeeded, status is the
\* HTTP status code, json whether the body (BOM stripped) unmarshals, visits
\* the MonitoredStopVisit entries of a body that does.
Reply(transport, readable, status, json, visits) ==
  [transport |-> transport, readable |-> readable, status |-> status,
   json |-> json, visits |-> visits]

Visit(arr, dep, dest, line) ==
  [ExpectedArrivalTime |-> arr, ExpectedDepartureTime |-> dep,
   DestinationName |-> dest, LineRef |-> line]

\* Mutant of VisitTimeStr: the departure time is preferred to the arrival time.
VisitTimeStr_DepartureFirst(visit) ==
  IF visit.ExpectedDepartureTime = EmptyStr
  THEN visit.ExpectedArrivalTime
  ELSE visit.ExpectedDepartureTime

\* timeStr of one visit: the arrival time, or the departure time if the
\* arrival time is not available.
VisitTimeStr(visit) ==
  IF visit.ExpectedArrivalTime = EmptyStr
  THEN visit.ExpectedDepartureTime
  ELSE visit.ExpectedArrivalTime

\* The loop over MonitoredStopVisit: entries without a time or with one that
\* does not parse are skipped.
RECURSIVE ParseVisits(_)
ParseVisits(visits) ==
  IF visits = << >> THEN << >>
  ELSE LET visit == Head(visits)
           timeStr == VisitTimeStr(visit)
       IN (IF timeStr = EmptyStr \/ ~ParseOK(timeStr) THEN << >>
           ELSE << [ArrivalTime |-> timeStr, Minutes |-> 0,
                    Destination |-> visit.DestinationName,
                    LineType |-> visit.LineRef] >>)
          \o ParseVisits(Tail(visits))

\* fetchStopArrivals as a function of the upstream's reply:
\* [arrivals, err], err = "" for nil.
fetchStopArrivals(reply) ==
  IF ~reply.transport THEN [arrivals |-> << >>, err |-> "request failed"]
  ELSE IF ~reply.readable
  THEN [arrivals |-> << >>, err |-> "failed to read response"]
  ELSE IF reply.status # 200 THEN [arrivals |-> << >>, err |-> "HTTP error"]
  ELSE IF ~reply.json
  THEN [arrivals |-> << >>, err |-> "failed to parse response"]
  ELSE [arrivals |-> ParseVisits(reply.visits), err |-> ""]

\* ---------------------------------------------------- detectQualityIssues
\* times: the arrival times that parse, in the order given.
RECURSIVE ParsedTimes(_)
ParsedTimes(arrivals) ==
  IF arrivals = << >> THEN << >>
  ELSE (IF ParseOK(Head(arrivals).ArrivalTime)
        THEN << Head(arrivals).ArrivalTime.t >> ELSE << >>)
       \o ParsedTimes(Tail(arrivals))

\* Mutant of detectQualityIssues: a gap of exactly 40 minutes counts as large.
detectQualityIssues_GapInclusive(arrivals, now) ==
  LET times == ParsedTimes(arrivals)
      firstDelta == times[1] - now
      hour == Hour(now)
      isNormalHours == hour >= 6 /\ hour < 22
      isPeakHours == (hour >= 7 /\ hour <= 9) \/ (hour >= 16 /\ hour <= 19)
  IN IF Len(arrivals) = 0 THEN << "", "good" >>
     ELSE IF Len(times) = 0 THEN << "", "good" >>
     ELSE IF \E i \in 2..Len(times) :
               times[i] - times[i - 1] >= GapMinutes * MsPerMinute
     THEN << "Incomplete data - large gap in arrivals", "warning" >>
     ELSE IF isNormalHours /\ firstDelta > FarMinutes * MsPerMinute
     THEN << "Next arrival unusually far away", "warning" >>
     ELSE IF isPeakHours /\ Len(times) = 1
             /\ firstDelta < FarMinutes * MsPerMinute
     THEN << "Limited schedule data available", "warning" >>
     ELSE << "", "good" >>

\* Mutant of detectQualityIssues: normal hours include the hour from 22:00.
detectQualityIssues_NormalThrough22(arrivals, now) ==
  LET times == ParsedTimes(arrivals)
      firstDelta == times[1] - now
      hour == Hour(now)
      isNormalHours == hour >= 6 /\ hour <= 22
      isPeakHours == (hour >= 7 /\ hour <= 9) \/ (hour >= 16 /\ hour <= 19)
  IN IF Len(arrivals) = 0 THEN << "", "good" >>
     ELSE IF Len(times) = 0 THEN << "", "good" >>
     ELSE IF \E i \in 2..Len(times) :
               times[i] - times[i - 1] > GapMinutes * MsPerMinute
     THEN << "Incomplete data - large gap in arrivals", "warning" >>
     ELSE IF isNormalHours /\ firstDelta > FarMinutes * MsPerMinute
     THEN << "Next arrival unusually far away", "warning" >>
     ELSE IF isPeakHours /\ Len(times) = 1
             /\ firstDelta < FarMinutes * MsPerMinute
     THEN << "Limited schedule data available", "warning" >>
     ELSE << "", "good" >>

\* Mutant of detectQualityIssues: the peak windows end at 09:00 and 19:00.
detectQualityIssues_PeakEndsOnHour(arrivals, now) ==
  LET times == ParsedTimes(arrivals)
      firstDelta == times[1] - now
      hour == Hour(now)
      isNormalHours == hour >= 6 /\ hour < 22
      isPeakHours == (hour >= 7 /\ hour < 9) \/ (hour >= 16 /\ hour < 19)
  IN IF Len(arrivals) = 0 THEN << "", "good" >>
     ELSE IF Len(times) = 0 THEN << "", "good" >>
     ELSE IF \E i \in 2..Len(times) :
               times[i] - times[i - 1] > GapMinutes * MsPerMinute
     THEN << "Incomplete data - large gap in arrivals", "warning" >>
     ELSE IF isNormalHours /\ firstDelta > FarMinutes * MsPerMinute
     THEN << "Next arrival unusually far away", "warning" >>
     ELSE IF isPeakHours /\ Len(times) = 1
             /\ firstDelta < FarMinutes * MsPerMinute
     THEN << "Limited schedule data available", "warning" >>
     ELSE << "", "good" >>

\* Mutant of detectQualityIssues: an empty list is judged by the hour, as
\* limited data in peak hours.
detectQualityIssues_EmptyIsLimited(arrivals, now) ==
  LET times == ParsedTimes(arrivals)
      firstDelta == times[1] - now
      hour == Hour(now)
      isNormalHours == hour >= 6 /\ hour < 22
      isPeakHours == (hour >= 7 /\ hour <= 9) \/ (hour >= 16 /\ hour <= 19)
  IN IF Len(times) = 0
     THEN (IF isPeakHours
           THEN << "Limited schedule data available", "warning" >>
           ELSE << "", "good" >>)
     ELSE IF \E i \in 2..Len(times) :
               times[i] - times[i - 1] > GapMinutes * MsPerMinute
     THEN << "Incomplete data - large gap in arrivals", "warning" >>
     ELSE IF isNormalHours /\ firstDelta > FarMinutes * MsPerMinute
     THEN << "Next arrival unusually far away", "warning" >>
     ELSE IF isPeakHours /\ Len(times) = 1
             /\ firstDelta < FarMinutes * MsPerMinute
     THEN << "Limited schedule data available", "warning" >>
     ELSE << "", "good" >>

detectQualityIssues(arrivals, now) ==
  LET times == ParsedTimes(arrivals)
      firstDelta == times[1] - now
      hour == Hour(now)
      isNormalHours == hour >= 6 /\ hour < 22
      isPeakHours == (hour >= 7 /\ hour <= 9) \/ (hour >= 16 /\ hour <= 19)
  IN IF Len(arrivals) = 0 THEN << "", "good" >>
     ELSE IF Len(times) = 0 THEN << "", "good" >>
     ELSE IF \E i \in 2..Len(times) :
               times[i] - times[i - 1] > GapMinutes * MsPerMinute
     THEN << "Incomplete data - large gap in arrivals", "warning" >>
     ELSE IF isNormalHours /\ firstDelta > FarMinutes * MsPerMinute
     THEN << "Next arrival unusually far away", "warning" >>
     ELSE IF isPeakHours /\ Len(times) = 1
             /\ firstDelta < FarMinutes * MsPerMinute
     THEN << "Limited schedule data available", "warning" >>
     ELSE << "", "good" >>

\* --------------------------------------------- handleArrivals: projection
\* Mutant of RecalcArrivals: arrivals in the past are not skipped.
RECURSIVE RecalcArrivals_KeepPast(_, _)
RecalcArrivals_KeepPast(arrivals, now) ==
  IF arrivals = << >> THEN << >>
  ELSE LET arrival == Head(arrivals)
           minutes == TruncMinutes(arrival.ArrivalTime.t - now)
       IN (IF ~ParseOK(arrival.ArrivalTime) THEN << >>
           ELSE << [ArrivalTime |-> arrival.ArrivalTime, Minutes |-> minutes,
                    Destination |-> arrival.Destination,
                    LineType |-> arrival.LineType] >>)
          \o RecalcArrivals_KeepPast(Tail(arrivals), now)

\* validArrivals: minutes recalculated, unparseable and past arrivals skipped.
RECURSIVE RecalcArrivals(_, _)
RecalcArrivals(arrivals, now) ==
  IF arrivals = << >> THEN << >>
  ELSE LET arrival == Head(arrivals)
           minutes == TruncMinutes(arrival.ArrivalTime.t - now)
       IN (IF ~ParseOK(arrival.ArrivalTime) \/ minutes < 0 THEN << >>
           ELSE << [ArrivalTime |-> arrival.ArrivalTime, Minutes |-> minutes,
                    Destination |-> arrival.Destination,
                    LineType |-> arrival.LineType] >>)
          \o RecalcArrivals(Tail(arrivals), now)

\* Mutant of LimitArrivals: the last three are kept instead of the first.
LimitArrivals_Tail(validArrivals) ==
  IF Len(validArrivals) > MaxArrivals
  THEN SubSeq(validArrivals, Len(validArrivals) - MaxArrivals + 1, Len(validArrivals))
  ELSE validArrivals

\* Limit to 3 upcoming arrivals.
LimitArrivals(validArrivals) ==
  IF Len(validArrivals) > MaxArrivals
  THEN SubSeq(validArrivals, 1, MaxArrivals)
  ELSE validArrivals

\* Mutant of ProjectDirection: a direction with a fetch error is not
\* skipped; its (empty) arrivals go through the quality analysis.
ProjectDirection_NoSkip(dir, now) ==
  LET validArrivals == LimitArrivals(RecalcArrivals(dir.Arrivals, now))
      quality == detectQualityIssues(validArrivals, now)
  IN [Label |-> dir.Label, StopID |-> dir.StopID, Arrivals |-> validArrivals,
      Error |-> dir.Error, QualityWarning |-> quality[1],
      QualityLevel |-> quality[2]]

\* Mutant of ProjectDirection: the quality analysis is given the cached
\* arrivals of the direction instead of the list that is sent.
ProjectDirection_QualityOfCached(dir, now) ==
  LET base == [Label |-> dir.Label, StopID |-> dir.StopID,
               Arrivals |-> << >>, Error |-> dir.Error,
               QualityWarning |-> "", QualityLevel |-> ""]
      validArrivals == LimitArrivals(RecalcArrivals(dir.Arrivals, now))
      quality == detectQualityIssues(dir.Arrivals, now)
  IN IF dir.Error # "" THEN base
     ELSE [base EXCEPT !.Arrivals = validArrivals,
                       !.QualityWarning = quality[1],
                       !.QualityLevel = quality[2]]

\* One iteration of the direction loop of handleArrivals.
ProjectDirection(dir, now) ==
  LET base == [Label |-> dir.Label, StopID |-> dir.StopID,
               Arrivals |-> << >>, Error |-> dir.Error,
               QualityWarning |-> "", QualityLevel |-> ""]
      validArrivals == LimitArrivals(RecalcArrivals(dir.Arrivals, now))
      quality == detectQualityIssues(validArrivals, now)
  IN IF dir.Error # "" THEN base
     ELSE [base EXCEPT !.Arrivals = validArrivals,
                       !.QualityWarning = quality[1],
                       !.QualityLevel = quality[2]]

\* One iteration of the stop loop of handleArrivals.
ProjectStop(stop, now) ==
  [Name |-> stop.Name, Line |-> stop.Line,
   Directions |-> [j \in 1..Len(stop.Directions) |->
                     ProjectDirection(stop.Directions[j], now)]]

\* Mutant of Project: a snapshot whose directions all failed is answered like
\* an empty cache.
Project_BlankWhenAllFailed(cachedStops, formatNow, now) ==
  IF Len(cachedStops) = 0
     \/ \A i \in 1..Len(cachedStops) :
          \A j \in 1..Len(cachedStops[i].Directions) :
            cachedStops[i].Directions[j].Error # ""
  THEN [Stops |-> << >>, LastUpdated |-> Loading]
  ELSE [Stops |-> [i \in 1..Len(cachedStops) |-> ProjectStop(cachedStops[i], now)],
        LastUpdated |-> Format(formatNow)]

\* The response handleArrivals encodes for the copied snapshot cachedStops
\* (the elements the copied slice header reaches) and its two clock reads.
Project(cachedStops, formatNow, now) ==
  IF Len(cachedStops) = 0
  THEN [Stops |-> << >>, LastUpdated |-> Loading]
  ELSE [Stops |-> [i \in 1..Len(cachedStops) |-> ProjectStop(cachedStops[i], now)],
        LastUpdated |-> Format(formatNow)]

\* ------------------------------------------------------------------- state
VARIABLES
  clock,        \* wall clock, ms
  interval,     \* config.CacheRefreshInterval, seconds
  mainPc,       \* main: "refresher" (in startCacheRefresher), "routes", "serving"
  rpc,          \* the refresh task's position in startCacheRefresher/refreshCache
  ri, rj,       \* refreshCache: loop indices i, j (1-based)
  response,     \* refreshCache: local response (Stops a slice header)
  fetched,      \* refreshCache: locals arrivals, err of the current iteration
  cycles,       \* completed calls of refreshCache
  inflight,     \* upstream requests issued and not yet answered
  tickAt,       \* ticker: time of its next tick (0 before time.NewTicker)
  tickC,        \* ticker.C: ticks buffered (capacity 1)
  cache,        \* cache.data, cache.lastFetched
  mu,           \* cache.mu
  heap,         \* backing arrays of the []StopArrivals slices, by address
  hpc,          \* per handler goroutine: position in handleArrivals
  cachedData,   \* per handler goroutine: local cachedData
  sent,         \* history: the response last encoded to a client (n = 1),
                \* forgotten at the next step of any goroutine: the completed
                \* cycles and the time then, the local copy and the elements
                \* it reached, and the body sent
  trace,        \* history: upstream calls, pacing sleeps and cache writes
  results,      \* history: what each upstream call of the running cycle
                \* returned (failed or not, and the arrivals), in call order
  published,    \* history: per completed cycle, the value of cache.data it
                \* left and whether any of its directions was fetched
  upstream,     \* the upstream's reply to the request in flight, where the
                \* reply is fixed before the request (SpecFetch)
  page          \* the Arrivals page open in a browser (static/app.js), where
                \* one is followed (SpecBrowser)

vars ==
  << clock, interval, mainPc, rpc, ri, rj, response, fetched, cycles, inflight,
     tickAt, tickC, cache, mu, heap, hpc, cachedData, sent, trace, results,
     published, upstream, page >>

refresherVars ==
  << rpc, ri, rj, response, fetched, cycles, inflight, trace, results, published >>
tickerVars == << tickAt, tickC >>
handlerVars == << hpc, cachedData >>
\* What lies outside the server process and is followed only in SpecFetch
\* and SpecBrowser.
outsideVars == << upstream, page >>

\* No reply is fixed in advance; no page is followed.
NoReply == << >>
NoPage == << >>

NoFetch == [arrivals |-> << >>, err |-> "", done |-> FALSE]

\* The step sent no response.
NotSent ==
  [n |-> 0, cycles |-> 0, at |-> 0, header |-> ZeroData, stops |-> << >>,
   body |-> NoResponse]

\* refreshInterval of startCacheRefresher, ms
RefreshIntervalMs ==
  IF interval * MsPerSecond = 0
  THEN DefaultRefreshMinutes * MsPerMinute
  ELSE interval * MsPerSecond

\* Replies the upstream may give to a request issued at time now.
UpstreamReplies(now) ==
  { Reply(FALSE, FALSE, 0, FALSE, << >>),
    Reply(TRUE, FALSE, 200, FALSE, << >>),
    Reply(TRUE, TRUE, 500, TRUE, << >>),
    Reply(TRUE, TRUE, 200, FALSE, << >>),
    Reply(TRUE, TRUE, 200, TRUE,
          << Visit(EmptyStr, EmptyStr, "Nowhere", "T"),
             Visit(BadStr, TimeStr(now), "Depot", "T"),
             Visit(TimeStr(now + 3 * MsPerMinute), EmptyStr, "Chinatown", "T"),
             Visit(EmptyStr, TimeStr(now + 9 * MsPerMinute), "Sunnydale", "T") >>) }

Init ==
  /\ clock = StartClock
  /\ interval \in CacheRefreshIntervals
  /\ mainPc = "refresher"
  /\ rpc = "begin"
  /\ ri = 1
  /\ rj = 1
  /\ response = ZeroData
  /\ fetched = NoFetch
  /\ cycles = 0
  /\ inflight = 0
  /\ tickAt = 0
  /\ tickC = 0
  /\ cache = [data |-> ZeroData, lastFetched |-> ZeroTime]
  /\ mu = [writer |-> FALSE, pending |-> FALSE, readers |-> 0]
  /\ heap = [p \in 1..MaxCycles |-> << >>]
  /\ hpc = [r \in Readers |-> "idle"]
  /\ cachedData = [r \in Readers |-> ZeroData]
  /\ sent = NotSent
  /\ trace = << >>
  /\ results = << >>
  /\ published = << >>
  /\ upstream = NoReply
  /\ page = NoPage

\* The wall clock reaches t: the ticker sends the ticks that fell due; a tick
\* finding ticker.C full is dropped.
AdvanceClock(t) ==
  /\ clock' = t
  /\ IF tickAt # 0 /\ tickAt <= t
     THEN /\ tickC' = 1
          /\ tickAt' = tickAt + (((t - tickAt) \div RefreshIntervalMs) + 1) * RefreshIntervalMs
     ELSE UNCHANGED tickerVars

\* ------------------------------------------------------------------- heap
\* The arrays the handlers' local copies point to.
HandlerRoots(cd) == {cd[r].Stops.ptr : r \in Readers}

\* Garbage collection: arrays no root in live points to are reclaimed.
Collect(h, live) == [p \in DOMAIN h |-> IF p \in live THEN h[p] ELSE << >>]

\* ------------------------------------------------------------ refreshCache
Event(ev, stop, ms) ==
  [ev |-> ev, cycle |-> cycles + 1, stop |-> stop, at |-> clock, ms |-> ms]

\* Mutant of RequestedStopID: the directions of a stop are walked backwards.
RequestedStopID_Reversed(i, j) ==
  Stops[i].Directions[Len(Stops[i].Directions) - j + 1].StopID

\* dir.StopID of iteration (i, j): the stop the upstream is asked for.
RequestedStopID(i, j) == Stops[i].Directions[j].StopID

\* response.Stops[i] = StopArrivals{...} on entering stop i, and
\* response.Stops[i].Directions[j] = DirectionArrivals{...}, in array p of h.
InitEntries(h, p, i, j) ==
  LET stop == Stops[i]
      dir == stop.Directions[j]
      h1 == IF j = 1
            THEN [h EXCEPT ![p][i] =
                    [Name |-> stop.Name, Line |-> stop.Line,
                     Directions |-> [k \in 1..Len(stop.Directions) |-> ZeroDirection]]]
            ELSE h
  IN [h1 EXCEPT ![p][i].Directions[j] =
        [ZeroDirection EXCEPT !.Label = dir.Label, !.StopID = dir.StopID]]

\* Mutant of StoreResult: a failed direction marks its whole stop as failed.
StoreResult_FailStop(h, p, i, j, res) ==
  IF res.err # ""
  THEN [h EXCEPT ![p][i].Directions =
          [k \in 1..Len(@) |-> [@[k] EXCEPT !.Error = UnableToFetch]]]
  ELSE [h EXCEPT ![p][i].Directions[j].Arrivals = res.arrivals]

\* Mutant of StoreResult: the underlying cause is stored as the error marker.
StoreResult_LeakCause(h, p, i, j, res) ==
  IF res.err # ""
  THEN [h EXCEPT ![p][i].Directions[j].Error = res.err]
  ELSE [h EXCEPT ![p][i].Directions[j].Arrivals = res.arrivals]

\* if err != nil { ...Error = "Unable to fetch" } else { ...Arrivals = arrivals }
StoreResult(h, p, i, j, res) ==
  IF res.err # ""
  THEN [h EXCEPT ![p][i].Directions[j].Error = UnableToFetch]
  ELSE [h EXCEPT ![p][i].Directions[j].Arrivals = res.arrivals]

\* Every direction of the snapshot stops carries a fetch error.
AllFailed(stops) ==
  \A i \in 1..Len(stops) :
    \A j \in 1..Len(stops[i].Directions) : stops[i].Directions[j].Error # ""

\* The loop indices after iteration (i, j); i = Len(Stops) + 1 ends the loops.
NextIndex(i, j) ==
  IF j < Len(Stops[i].Directions) THEN << i, j + 1 >> ELSE << i + 1, 1 >>

\* Mutant of NewArray: a cycle fills the array the cache holds.
NewArray_InPlace ==
  IF cache.data.Stops.ptr = 0 THEN cycles + 1 ELSE cache.data.Stops.ptr

\* The address make([]StopArrivals, ...) returns in the cycle being started.
NewArray == cycles + 1

\* refreshCache entered: the local response is built.
RefreshEnter ==
  /\ response' = [Stops |-> [ptr |-> NewArray, len |-> Len(Stops)],
                  LastUpdated |-> Format(clock)]
  /\ heap' = [heap EXCEPT ![NewArray] = [i \in 1..Len(Stops) |-> ZeroStop]]
  /\ ri' = 1
  /\ rj' = 1
  /\ rpc' = "call"

\* Mutant of InitialRefresh: the refresher is started in the background
\* (go startCacheRefresher()) and main goes on to register the routes.
InitialRefresh_Background ==
  /\ rpc = "begin"
  /\ RefreshEnter
  /\ mainPc' = "routes"
  /\ sent' = NotSent
  /\ UNCHANGED << clock, interval, fetched, cycles, inflight, tickerVars,
                  cache, mu, handlerVars, trace, published, results,
                  outsideVars >>

\* startCacheRefresher: the initial refreshCache().
InitialRefresh ==
  /\ rpc = "begin"
  /\ RefreshEnter
  /\ sent' = NotSent
  /\ UNCHANGED << clock, interval, mainPc, fetched, cycles, inflight, tickerVars,
                  cache, mu, handlerVars, trace, published, results,
                  outsideVars >>

\* Mutant of TickReceive: a tick starts refreshCache whether or not the call
\* before has returned.
TickReceive_Concurrent ==
  /\ rpc \notin {"begin", "arm"}
  /\ tickC = 1
  /\ cycles < MaxCycles
  /\ tickC' = 0
  /\ RefreshEnter
  /\ sent' = NotSent
  /\ UNCHANGED << clock, interval, mainPc, fetched, cycles, inflight, tickAt,
                  cache, mu, handlerVars, trace, published, results,
                  outsideVars >>

\* for range ticker.C: a buffered tick is received and refreshCache() called.
TickReceive ==
  /\ rpc = "idle"
  /\ tickC = 1
  /\ cycles < MaxCycles
  /\ tickC' = 0
  /\ RefreshEnter
  /\ sent' = NotSent
  /\ UNCHANGED << clock, interval, mainPc, fetched, cycles, inflight, tickAt,
                  cache, mu, handlerVars, trace, published, results,
                  outsideVars >>

\* for range ticker.C with no tick buffered: the task blocks until the next tick.
TickWait ==
  /\ rpc = "idle"
  /\ tickC = 0
  /\ cycles < MaxCycles
  /\ AdvanceClock(tickAt)
  /\ sent' = NotSent
  /\ UNCHANGED << interval, mainPc, refresherVars, cache, mu, heap, handlerVars,
                  outsideVars >>

\* Mutant of CallUpstream: the refresh task takes the write lock before it
\* asks the upstream, and keeps it through the call.
CallUpstream_UnderLock ==
  /\ rpc = "call"
  /\ mu.readers = 0 /\ ~mu.writer
  /\ mu' = [mu EXCEPT !.writer = TRUE]
  /\ heap' = InitEntries(heap, response.Stops.ptr, ri, rj)
  /\ inflight' = inflight + 1
  /\ trace' = Append(trace, Event("call", RequestedStopID(ri, rj), 0))
  /\ rpc' = "wait"
  /\ sent' = NotSent
  /\ UNCHANGED << clock, interval, mainPc, ri, rj, response, fetched, cycles,
                  tickerVars, cache, handlerVars, published, results,
                  outsideVars >>

\* The entries of iteration (ri, rj) are initialised and the GET is issued.
CallUpstream ==
  /\ rpc = "call"
  /\ heap' = InitEntries(heap, response.Stops.ptr, ri, rj)
  /\ inflight' = inflight + 1
  /\ trace' = Append(trace, Event("call", RequestedStopID(ri, rj), 0))
  /\ rpc' = "wait"
  /\ sent' = NotSent
  /\ UNCHANGED << clock, interval, mainPc, ri, rj, response, fetched, cycles,
                  tickerVars, cache, mu, handlerVars, published, results,
                  outsideVars >>

\* What a call returned, for the history: whether it failed, and the arrivals.
Outcome(res) == [failed |-> res.err # "", arrivals |-> res.arrivals]

\* Mutant of ReceiveReply: a failed call is issued again at once.
ReceiveReply_Retry ==
  /\ rpc = "wait"
  /\ \E reply \in UpstreamReplies(clock) :
       LET res == fetchStopArrivals(reply)
       IN IF res.err # ""
          THEN /\ rpc' = "call"
               /\ UNCHANGED << fetched, heap, results >>
          ELSE /\ fetched' = [arrivals |-> res.arrivals, err |-> res.err, done |-> TRUE]
               /\ heap' = StoreResult(heap, response.Stops.ptr, ri, rj, res)
               /\ results' = Append(results, Outcome(res))
               /\ rpc' = "sleep"
  /\ inflight' = inflight - 1
  /\ sent' = NotSent
  /\ UNCHANGED << clock, interval, mainPc, ri, rj, response, cycles, tickerVars,
                  cache, mu, handlerVars, trace, published, outsideVars >>

\* Mutant of ReceiveReply: the response under construction is stored in the
\* cache after every direction.
ReceiveReply_Publish ==
  /\ rpc = "wait"
  /\ \E reply \in UpstreamReplies(clock) :
       LET res == fetchStopArrivals(reply)
       IN /\ fetched' = [arrivals |-> res.arrivals, err |-> res.err, done |-> TRUE]
          /\ heap' = StoreResult(heap, response.Stops.ptr, ri, rj, res)
          /\ results' = Append(results, Outcome(res))
  /\ cache' = [cache EXCEPT !.data = response]
  /\ inflight' = inflight - 1
  /\ rpc' = "sleep"
  /\ sent' = NotSent
  /\ UNCHANGED << clock, interval, mainPc, ri, rj, response, cycles, tickerVars,
                  mu, handlerVars, trace, published, outsideVars >>

\* Mutant of ReceiveReply: a failed call ends the refresh task.
ReceiveReply_FatalOnError ==
  /\ rpc = "wait"
  /\ \E reply \in UpstreamReplies(clock) :
       LET res == fetchStopArrivals(reply)
       IN /\ fetched' = [arrivals |-> res.arrivals, err |-> res.err, done |-> TRUE]
          /\ heap' = StoreResult(heap, response.Stops.ptr, ri, rj, res)
          /\ results' = Append(results, Outcome(res))
          /\ rpc' = IF res.err # "" THEN "exited" ELSE "sleep"
  /\ inflight' = inflight - 1
  /\ sent' = NotSent
  /\ UNCHANGED << clock, interval, mainPc, ri, rj, response, cycles, tickerVars,
                  cache, mu, handlerVars, trace, published, outsideVars >>

\* fetchStopArrivals returns; the result is stored in the local response.
ReceiveReply ==
  /\ rpc = "wait"
  /\ \E reply \in UpstreamReplies(clock) :
       LET res == fetchStopArrivals(reply)
       IN /\ fetched' = [arrivals |-> res.arrivals, err |-> res.err, done |-> TRUE]
          /\ heap' = StoreResult(heap, response.Stops.ptr, ri, rj, res)
          /\ results' = Append(results, Outcome(res))
  /\ inflight' = inflight - 1
  /\ rpc' = "sleep"
  /\ sent' = NotSent
  /\ UNCHANGED << clock, interval, mainPc, ri, rj, response, cycles, tickerVars,
                  cache, mu, handlerVars, trace, published, outsideVars >>

\* Mutant of PacingSleep: the sleep is taken only between the directions of
\* one stop, not after the last direction of a stop.
PacingSleep_BetweenOnly ==
  /\ rpc = "sleep"
  /\ IF rj < Len(Stops[ri].Directions)
     THEN /\ AdvanceClock(clock + PacingMs)
          /\ trace' = Append(trace, Event("sleep", "", PacingMs))
     ELSE UNCHANGED << clock, tickerVars, trace >>
  /\ fetched' = NoFetch
  /\ ri' = NextIndex(ri, rj)[1]
  /\ rj' = NextIndex(ri, rj)[2]
  /\ rpc' = IF NextIndex(ri, rj)[1] > Len(Stops) THEN "lock" ELSE "call"
  /\ sent' = NotSent
  /\ UNCHANGED << interval, mainPc, response, cycles, inflight, cache, mu, heap,
                  handlerVars, published, results, outsideVars >>

\* time.Sleep(1500 * time.Millisecond), then the next iteration or the end
\* of the loops.
PacingSleep ==
  /\ rpc = "sleep"
  /\ AdvanceClock(clock + PacingMs)
  /\ trace' = Append(trace, Event("sleep", "", PacingMs))
  /\ fetched' = NoFetch
  /\ ri' = NextIndex(ri, rj)[1]
  /\ rj' = NextIndex(ri, rj)[2]
  /\ rpc' = IF NextIndex(ri, rj)[1] > Len(Stops) THEN "lock" ELSE "call"
  /\ sent' = NotSent
  /\ UNCHANGED << interval, mainPc, response, cycles, inflight, cache, mu, heap,
                  handlerVars, published, results, outsideVars >>

\* cache.mu.Lock(): the writer announces itself; later RLock calls block.
LockAnnounce ==
  /\ rpc = "lock"
  /\ mu' = [mu EXCEPT !.pending = TRUE]
  /\ rpc' = "lockwait"
  /\ sent' = NotSent
  /\ UNCHANGED << clock, interval, mainPc, ri, rj, response, fetched, cycles,
                  inflight, tickerVars, cache, heap, handlerVars, trace,
                  published, results, outsideVars >>

\* Mutant of CanLock: the writer does not wait for the readers holding the lock.
CanLock_IgnoreReaders == ~mu.writer

\* Whether cache.mu.Lock() may return.
CanLock == mu.readers = 0 /\ ~mu.writer

\* cache.mu.Lock() returns once the readers holding the lock have released it.
LockAcquire ==
  /\ rpc = "lockwait"
  /\ CanLock
  /\ mu' = [mu EXCEPT !.pending = FALSE, !.writer = TRUE]
  /\ rpc' = "wstops"
  /\ sent' = NotSent
  /\ UNCHANGED << clock, interval, mainPc, ri, rj, response, fetched, cycles,
                  inflight, tickerVars, cache, heap, handlerVars, trace,
                  published, results, outsideVars >>

\* Mutant of WriteStops: a cycle that failed for every direction keeps the
\* snapshot the cache holds.
WriteStops_KeepGood ==
  /\ rpc = "wstops"
  /\ IF AllFailed(heap[response.Stops.ptr])
     THEN UNCHANGED << cache, heap >>
     ELSE /\ cache' = [cache EXCEPT !.data.Stops = response.Stops]
          /\ heap' = Collect(heap, {response.Stops.ptr} \cup HandlerRoots(cachedData))
  /\ rpc' = "wlast"
  /\ sent' = NotSent
  /\ UNCHANGED << clock, interval, mainPc, ri, rj, response, fetched, cycles,
                  inflight, tickerVars, mu, handlerVars, trace, published,
                  results, outsideVars >>

\* cache.data = response, field Stops; the array the cache pointed to before
\* is garbage once no handler holds a copy of its header.
WriteStops ==
  /\ rpc = "wstops"
  /\ cache' = [cache EXCEPT !.data.Stops = response.Stops]
  /\ heap' = Collect(heap, {response.Stops.ptr} \cup HandlerRoots(cachedData))
  /\ rpc' = "wlast"
  /\ sent' = NotSent
  /\ UNCHANGED << clock, interval, mainPc, ri, rj, response, fetched, cycles,
                  inflight, tickerVars, mu, handlerVars, trace, published,
                  results, outsideVars >>

\* cache.data = response, field LastUpdated
WriteLastUpdated ==
  /\ rpc = "wlast"
  /\ cache' = [cache EXCEPT !.data.LastUpdated = response.LastUpdated]
  /\ rpc' = "wtime"
  /\ sent' = NotSent
  /\ UNCHANGED << clock, interval, mainPc, ri, rj, response, fetched, cycles,
                  inflight, tickerVars, mu, heap, handlerVars, trace,
                  published, results, outsideVars >>

\* cache.lastFetched = time.Now()
WriteLastFetched ==
  /\ rpc = "wtime"
  /\ cache' = [cache EXCEPT !.lastFetched = clock]
  /\ trace' = Append(trace, Event("write", "", 0))
  /\ rpc' = "unlock"
  /\ sent' = NotSent
  /\ UNCHANGED << clock, interval, mainPc, ri, rj, response, fetched, cycles,
                  inflight, tickerVars, mu, heap, handlerVars, published, results,
                  outsideVars >>

\* cache.mu.Unlock(); refreshCache returns, to startCacheRefresher after the
\* initial fetch and to the ticker loop otherwise.
Unlock ==
  /\ rpc = "unlock"
  /\ mu' = [mu EXCEPT !.writer = FALSE]
  /\ published' = Append(published,
                          [data |-> cache.data,
                           ok |-> ~AllFailed(heap[response.Stops.ptr])])
  /\ cycles' = cycles + 1
  /\ response' = ZeroData
  /\ results' = << >>
  /\ rpc' = IF cycles = 0 THEN "arm" ELSE "idle"
  /\ sent' = NotSent
  /\ UNCHANGED << clock, interval, mainPc, ri, rj, fetched, inflight, tickerVars,
                  cache, heap, handlerVars, trace, outsideVars >>

\* startCacheRefresher after the initial fetch: the ticker is created, the
\* refresh goroutine started, and main goes on to register the routes.
ArmTicker ==
  /\ rpc = "arm"
  /\ tickAt' = clock + RefreshIntervalMs
  /\ tickC' = 0
  /\ rpc' = "idle"
  /\ mainPc' = "routes"
  /\ sent' = NotSent
  /\ UNCHANGED << clock, interval, ri, rj, response, fetched, cycles, inflight,
                  cache, mu, heap, handlerVars, trace, published, results,
                  outsideVars >>

\* main: http.HandleFunc(...), http.ListenAndServe: requests are accepted.
ListenAndServe ==
  /\ mainPc = "routes"
  /\ mainPc' = "serving"
  /\ sent' = NotSent
  /\ UNCHANGED << clock, interval, refresherVars, tickerVars, cache, mu, heap,
                  handlerVars, outsideVars >>

\* ---------------------------------------------------------- handleArrivals
\* Mutant of CanRLock: the handler reads cache.data without excluding the writer.
CanRLock_Unguarded == TRUE

\* Whether cache.mu.RLock() may return: no writer holds or awaits the lock.
CanRLock == ~mu.writer /\ ~mu.pending

\* Mutant of HandleRLock: requests are accepted before the initial refresh
\* has returned (the refresher started in the background).
HandleRLock_BeforeReady(r) ==
  /\ hpc[r] = "idle"
  /\ CanRLock
  /\ mu' = [mu EXCEPT !.readers = @ + 1]
  /\ cachedData' = [cachedData EXCEPT ![r].Stops = cache.data.Stops]
  /\ hpc' = [hpc EXCEPT ![r] = "copying"]
  /\ sent' = NotSent
  /\ UNCHANGED << clock, interval, mainPc, refresherVars, tickerVars, cache, heap,
                  outsideVars >>

\* A request for /api/arrivals is accepted; its handler takes the read lock
\* and copies the first field of cache.data (cachedData := cache.data).
HandleRLock(r) ==
  /\ mainPc = "serving"
  /\ hpc[r] = "idle"
  /\ CanRLock
  /\ mu' = [mu EXCEPT !.readers = @ + 1]
  /\ cachedData' = [cachedData EXCEPT ![r].Stops = cache.data.Stops]
  /\ hpc' = [hpc EXCEPT ![r] = "copying"]
  /\ sent' = NotSent
  /\ UNCHANGED << clock, interval, mainPc, refresherVars, tickerVars, cache, heap,
                  outsideVars >>

\* The copy of cache.data is completed (field LastUpdated); cache.mu.RUnlock().
HandleRUnlock(r) ==
  /\ hpc[r] = "copying"
  /\ cachedData' = [cachedData EXCEPT ![r].LastUpdated = cache.data.LastUpdated]
  /\ mu' = [mu EXCEPT !.readers = @ - 1]
  /\ hpc' = [hpc EXCEPT ![r] = "project"]
  /\ sent' = NotSent
  /\ UNCHANGED << clock, interval, mainPc, refresherVars, tickerVars, cache, heap,
                  outsideVars >>

\* The elements the slice header s reaches.
Elements(s) == IF s.ptr = 0 THEN << >> ELSE SubSeq(heap[s.ptr], 1, s.len)

\* Mutant of HandleRespond: a handler that finds a failed direction in its
\* copy asks the upstream again itself.
HandleRespond_Refetch(r) ==
  /\ hpc[r] = "project"
  /\ sent' = [n |-> 1, cycles |-> cycles, at |-> clock, header |-> cachedData[r],
              stops |-> Elements(cachedData[r].Stops),
              body |-> Project(Elements(cachedData[r].Stops), clock, clock)]
  /\ trace' = IF AllFailed(Elements(cachedData[r].Stops))
              THEN Append(trace, Event("call", FlatStopIDs[1], 0))
              ELSE trace
  /\ cachedData' = [cachedData EXCEPT ![r] = ZeroData]
  /\ heap' = Collect(heap, {cache.data.Stops.ptr, response.Stops.ptr}
                             \cup HandlerRoots(cachedData'))
  /\ hpc' = [hpc EXCEPT ![r] = "idle"]
  /\ UNCHANGED << clock, interval, mainPc, rpc, ri, rj, response, fetched, cycles,
                  inflight, results, published, tickerVars, cache, mu,
                  outsideVars >>

\* Mutant of HandleRespond: last_updated is taken from the copied snapshot.
HandleRespond_StoredStamp(r) ==
  /\ hpc[r] = "project"
  /\ sent' = [n |-> 1, cycles |-> cycles, at |-> clock, header |-> cachedData[r],
              stops |-> Elements(cachedData[r].Stops),
              body |-> [Project(Elements(cachedData[r].Stops), clock, clock)
                          EXCEPT !.LastUpdated = cachedData[r].LastUpdated]]
  /\ cachedData' = [cachedData EXCEPT ![r] = ZeroData]
  /\ heap' = Collect(heap, {cache.data.Stops.ptr, response.Stops.ptr}
                             \cup HandlerRoots(cachedData'))
  /\ hpc' = [hpc EXCEPT ![r] = "idle"]
  /\ UNCHANGED << clock, interval, mainPc, refresherVars, tickerVars, cache, mu,
                  outsideVars >>

\* Mutant of HandleRespond: the recalculated entries are stored back through
\* the copied slice header, into the array it shares with the cache.
HandleRespond_WriteBack(r) ==
  /\ hpc[r] = "project"
  /\ sent' = [n |-> 1, cycles |-> cycles, at |-> clock, header |-> cachedData[r],
              stops |-> Elements(cachedData[r].Stops),
              body |-> Project(Elements(cachedData[r].Stops), clock, clock)]
  /\ cachedData' = [cachedData EXCEPT ![r] = ZeroData]
  /\ heap' = Collect(IF cachedData[r].Stops.ptr = 0 THEN heap
                     ELSE [heap EXCEPT ![cachedData[r].Stops.ptr] =
                             Project(Elements(cachedData[r].Stops), clock, clock).Stops],
                     {cache.data.Stops.ptr, response.Stops.ptr}
                       \cup HandlerRoots(cachedData'))
  /\ hpc' = [hpc EXCEPT ![r] = "idle"]
  /\ UNCHANGED << clock, interval, mainPc, refresherVars, tickerVars, cache, mu,
                  outsideVars >>

\* The rest of handleArrivals: the response is computed from the local copy
\* and the current time and encoded to the client; the handler returns and
\* its copy of the slice header is dropped.
HandleRespond(r) ==
  /\ hpc[r] = "project"
  /\ sent' = [n |-> 1, cycles |-> cycles, at |-> clock, header |-> cachedData[r],
              stops |-> Elements(cachedData[r].Stops),
              body |-> Project(Elements(cachedData[r].Stops), clock, clock)]
  /\ cachedData' = [cachedData EXCEPT ![r] = ZeroData]
  /\ heap' = Collect(heap, {cache.data.Stops.ptr, response.Stops.ptr}
                             \cup HandlerRoots(cachedData'))
  /\ hpc' = [hpc EXCEPT ![r] = "idle"]
  /\ UNCHANGED << clock, interval, mainPc, refresherVars, tickerVars, cache, mu,
                  outsideVars >>

\* --------------------------------------------------------------- behaviour
Next ==
  \/ InitialRefresh
  \/ TickReceive
  \/ TickWait
  \/ CallUpstream
  \/ ReceiveReply
  \/ PacingSleep
  \/ LockAnnounce
  \/ LockAcquire
  \/ WriteStops
  \/ WriteLastUpdated
  \/ WriteLastFetched
  \/ Unlock
  \/ ArmTicker
  \/ ListenAndServe
  \/ \E r \in Readers : HandleRLock(r)
  \/ \E r \in Readers : HandleRUnlock(r)
  \/ \E r \in Readers : HandleRespond(r)

Spec == Init /\ [][Next]_vars

\* ------------------------------------------------ the program, scheduled
\* The whole program under the scheduling the runtime gives it.  A goroutine
\* that can run does run: the refresh task takes its next step, time passes
\* while it sleeps or waits for a tick, and a handler that holds the read
\* lock or has its copy goes on to the end of handleArrivals.  An upstream
\* call returns, with a reply or with an error: httpClient gives up after
\* its Timeout.  cache.mu.Lock() returns once the readers inside have left,
\* RLock admitting no new reader while the writer waits.  Whether a request
\* arrives at all is left open.
RefresherStep ==
  \/ InitialRefresh
  \/ TickReceive
  \/ TickWait
  \/ CallUpstream
  \/ ReceiveReply
  \/ PacingSleep
  \/ LockAnnounce
  \/ LockAcquire
  \/ WriteStops
  \/ WriteLastUpdated
  \/ WriteLastFetched
  \/ Unlock
  \/ ArmTicker

\* The steps of HandleRespond(r), told by the handler's position alone: the
\* handler goes from its copy to its return.
HandlerReturns(r) == hpc[r] = "project" /\ hpc' = [hpc EXCEPT ![r] = "idle"]

Scheduling ==
  /\ WF_vars(RefresherStep)
  /\ WF_vars(ListenAndServe)
  /\ \A r \in Readers : WF_vars(HandleRUnlock(r))
  /\ \A r \in Readers : WF_hpc(HandlerReturns(r))

SpecScheduled == Init /\ [][Next]_vars /\ Scheduling

\* ------------------------------------------- the serving window in detail
\* The program between the cache write of its initial refresh cycle and the
\* first tick of the ticker, with the default refresh interval: the cache
\* holds one snapshot, requests are served from it while time passes.  The
\* snapshot is what refreshCache builds from the upstream's replies, which
\* are drawn from UpstreamSchedules; the time of day is drawn from ServingStarts.

\* Wall-clock times at which the initial cycle writes the cache, one shortly
\* before each hour detectQualityIssues tests for, and 08:00.
ServingStarts ==
  { 5 * MsPerHour + 59 * MsPerMinute, 6 * MsPerHour + 59 * MsPerMinute,
    8 * MsPerHour, 9 * MsPerHour + 59 * MsPerMinute,
    15 * MsPerHour + 59 * MsPerMinute, 19 * MsPerHour + 59 * MsPerMinute,
    21 * MsPerHour + 59 * MsPerMinute }

\* Arrival times the upstream reports for one direction, as offsets (ms) from
\* the time of the cache write, in the order of its reply.
UpstreamSchedules ==
  { << >>,
    << 1 * MsPerMinute >>,
    << 30 * MsPerMinute >>,
    << 30 * MsPerMinute, 35 * MsPerMinute >>,
    << 5 * MsPerMinute, 45 * MsPerMinute >>,
    << 5 * MsPerMinute, 46 * MsPerMinute >>,
    << 50 * MsPerMinute, 5 * MsPerMinute >>,
    << 92 * MsPerMinute >>,
    << 95 * MsPerMinute, 140 * MsPerMinute >>,
    << 0 - 90 * MsPerSecond, 0 - 30 * MsPerSecond, 90 * MsPerSecond >>,
    << 20 * MsPerMinute, 0 - 2 * MsPerMinute, 10 * MsPerMinute,
       4 * MsPerMinute, 1 * MsPerMinute >>,
    << 3 * MsPerMinute, 9 * MsPerMinute, 18 * MsPerMinute, 50 * MsPerMinute >> }

\* The schedule of the second direction in every snapshot of the window.
FixedSchedule ==
  << 3 * MsPerMinute, 9 * MsPerMinute, 18 * MsPerMinute, 60 * MsPerMinute >>

\* The upstream's reply carrying the schedule offs, relative to time base.
ScheduleReply(offs, base) ==
  Reply(TRUE, TRUE, 200, TRUE,
        [k \in 1..Len(offs) |->
           Visit(TimeStr(base + offs[k]), EmptyStr, "Downtown", "T")])

\* A reply with a status other than 200.
FailureReply == Reply(TRUE, TRUE, 500, TRUE, << >>)

\* The reply sequences (one reply per configured direction, in call order)
\* of the initial cycle: the first direction fails or reports any of the
\* schedules, the second reports FixedSchedule, every other one fails.
UpstreamReplySeqs(base) ==
  { [k \in 1..TotalDirections |->
       IF k = 1 THEN first
       ELSE IF k = 2 THEN ScheduleReply(FixedSchedule, base)
       ELSE FailureReply] :
    first \in {FailureReply} \cup {ScheduleReply(offs, base) : offs \in UpstreamSchedules} }

\* The loop indices (i, j) of the k-th iteration of refreshCache.
RECURSIVE NthIndex(_)
NthIndex(k) ==
  IF k = 1 THEN << 1, 1 >>
  ELSE NextIndex(NthIndex(k - 1)[1], NthIndex(k - 1)[2])

\* The heap after the first k iterations of a refreshCache that builds its
\* response in array p and is answered with replies.
RECURSIVE CycleHeap(_, _, _, _)
CycleHeap(h, p, replies, k) ==
  IF k = 0 THEN [h EXCEPT ![p] = [i \in 1..Len(Stops) |-> ZeroStop]]
  ELSE LET ij == NthIndex(k)
       IN StoreResult(InitEntries(CycleHeap(h, p, replies, k - 1), p, ij[1], ij[2]),
                      p, ij[1], ij[2], fetchStopArrivals(replies[k]))

\* The calls, sleeps and the cache write of a first cycle started at time t.
CycleTrace(t) ==
  [n \in 1..(2 * TotalDirections + 1) |->
     IF n = 2 * TotalDirections + 1
     THEN [ev |-> "write", cycle |-> 1, stop |-> "",
           at |-> t + TotalDirections * PacingMs, ms |-> 0]
     ELSE IF n % 2 = 1
     THEN [ev |-> "call", cycle |-> 1, stop |-> FlatStopIDs[(n + 1) \div 2],
           at |-> t + ((n - 1) \div 2) * PacingMs, ms |-> 0]
     ELSE [ev |-> "sleep", cycle |-> 1, stop |-> "",
           at |-> t + ((n - 1) \div 2) * PacingMs, ms |-> PacingMs]]

\* The server's state when http.ListenAndServe starts accepting requests:
\* the initial cycle, answered with replies, wrote the cache at time written.
ServingState(written, replies) ==
  LET started == written - TotalDirections * PacingMs
      built == CycleHeap([p \in 1..MaxCycles |-> << >>], 1, replies,
                         TotalDirections)
      data == [Stops |-> [ptr |-> 1, len |-> Len(Stops)],
               LastUpdated |-> Format(started)]
  IN /\ clock = written
     /\ interval = 0
     /\ mainPc = "serving"
     /\ rpc = "idle"
     /\ ri = Len(Stops) + 1
     /\ rj = 1
     /\ response = ZeroData
     /\ fetched = NoFetch
     /\ cycles = 1
     /\ inflight = 0
     /\ tickAt = written + DefaultRefreshMinutes * MsPerMinute
     /\ tickC = 0
     /\ cache = [data |-> data, lastFetched |-> written]
     /\ mu = [writer |-> FALSE, pending |-> FALSE, readers |-> 0]
     /\ heap = built
     /\ hpc = [r \in Readers |-> "idle"]
     /\ cachedData = [r \in Readers |-> ZeroData]
     /\ sent = NotSent
     /\ trace = CycleTrace(started)
     /\ results = << >>
     /\ published = << [data |-> data, ok |-> ~AllFailed(built[1])] >>

\* The serving window starts at any of the times and snapshots listed.
InitServing ==
  \E written \in ServingStarts :
    \E replies \in UpstreamReplySeqs(written) :
      /\ ServingState(written, replies)
      /\ upstream = NoReply
      /\ page = NoPage

\* Steps of wall-clock time the window is observed at, ms.
TimeSteps == {400, MsPerMinute}

\* Time passes by d while no goroutine takes a step, the ticker's first tick
\* still ahead.  The response last sent stays on record.
TimePasses(d) ==
  /\ clock + d < tickAt
  /\ clock + d - cache.lastFetched <= MaxElapsedMinutes * MsPerMinute
  /\ d < MsPerMinute => (clock - cache.lastFetched) % MsPerMinute = 0
  /\ clock' = clock + d
  /\ UNCHANGED << interval, mainPc, refresherVars, tickerVars, cache, mu, heap,
                  handlerVars, sent, outsideVars >>

NextServing ==
  \/ \E d \in TimeSteps : TimePasses(d)
  \/ \E r \in Readers : HandleRLock(r)
  \/ \E r \in Readers : HandleRUnlock(r)
  \/ \E r \in Readers : HandleRespond(r)

SpecServing == InitServing /\ [][NextServing]_vars

\* ------------------------------------------- one upstream reply in detail
\* The first call of the initial refresh cycle, answered by a reply fixed in
\* advance and drawn from FetchReplies.

\* The vehicle visits a reply is made of: with an arrival time only, with a
\* departure time only, with both, with neither, and with a time that does
\* not parse; the second is earlier than the first.
VisitKinds ==
  { Visit(TimeStr(StartClock + 9 * MsPerMinute), EmptyStr, "A", "T"),
    Visit(TimeStr(StartClock + 3 * MsPerMinute), EmptyStr, "B", "T"),
    Visit(EmptyStr, TimeStr(StartClock + 3 * MsPerMinute), "C", "T"),
    Visit(TimeStr(StartClock + 9 * MsPerMinute),
          TimeStr(StartClock + 3 * MsPerMinute), "D", "T"),
    Visit(EmptyStr, EmptyStr, "E", "T"),
    Visit(BadStr, TimeStr(StartClock + 3 * MsPerMinute), "F", "T"),
    Visit(EmptyStr, BadStr, "G", "T") }

\* The sequences of at most n visits.
RECURSIVE VisitSeqs(_)
VisitSeqs(n) ==
  IF n = 0 THEN {<< >>}
  ELSE VisitSeqs(n - 1)
       \cup {Append(s, v) : s \in {t \in VisitSeqs(n - 1) : Len(t) = n - 1},
                             v \in VisitKinds}

\* The replies examined: the four kinds of failure and every body that
\* unmarshals, with at most MaxVisits visits.
FetchReplies ==
  { Reply(FALSE, FALSE, 0, FALSE, << >>),
    Reply(TRUE, FALSE, 200, FALSE, << >>),
    Reply(TRUE, TRUE, 500, TRUE, << >>),
    Reply(TRUE, TRUE, 200, FALSE, << >>) }
  \cup {Reply(TRUE, TRUE, 200, TRUE, visits) : visits \in VisitSeqs(MaxVisits)}

InitFetch ==
  /\ clock = StartClock
  /\ interval \in CacheRefreshIntervals
  /\ mainPc = "refresher"
  /\ rpc = "begin"
  /\ ri = 1
  /\ rj = 1
  /\ response = ZeroData
  /\ fetched = NoFetch
  /\ cycles = 0
  /\ inflight = 0
  /\ tickAt = 0
  /\ tickC = 0
  /\ cache = [data |-> ZeroData, lastFetched |-> ZeroTime]
  /\ mu = [writer |-> FALSE, pending |-> FALSE, readers |-> 0]
  /\ heap = [p \in 1..MaxCycles |-> << >>]
  /\ hpc = [r \in Readers |-> "idle"]
  /\ cachedData = [r \in Readers |-> ZeroData]
  /\ sent = NotSent
  /\ trace = << >>
  /\ results = << >>
  /\ published = << >>
  /\ upstream \in FetchReplies
  /\ page = NoPage

\* fetchStopArrivals returns what it makes of the reply fixed in advance; the
\* result is stored in the local response.
ReceiveFixedReply ==
  /\ rpc = "wait"
  /\ LET res == fetchStopArrivals(upstream)
     IN /\ fetched' = [arrivals |-> res.arrivals, err |-> res.err, done |-> TRUE]
        /\ heap' = StoreResult(heap, response.Stops.ptr, ri, rj, res)
        /\ results' = Append(results, Outcome(res))
  /\ inflight' = inflight - 1
  /\ rpc' = "sleep"
  /\ sent' = NotSent
  /\ UNCHANGED << clock, interval, mainPc, ri, rj, response, cycles, tickerVars,
                  cache, mu, handlerVars, trace, published, outsideVars >>

NextFetch ==
  \/ InitialRefresh
  \/ CallUpstream
  \/ ReceiveFixedReply

SpecFetch == InitFetch /\ [][NextFetch]_vars

\* ------------------------------------------------ the server left running
\* The program started with the default settings (no cache_refresh_interval
\* configured) and followed for ObservedHours while no client ever connects;
\* the upstream gives every request the same reply.

\* The end of the time followed.
ObservedUntil == StartClock + ObservedHours * MsPerHour

\* Backing arrays allocated in that time: one per refresh cycle.
ArraysWithin ==
  (ObservedHours * MsPerHour) \div (DefaultRefreshMinutes * MsPerMinute) + 1

InitUnattended ==
  /\ clock = StartClock
  /\ interval = 0
  /\ mainPc = "refresher"
  /\ rpc = "begin"
  /\ ri = 1
  /\ rj = 1
  /\ response = ZeroData
  /\ fetched = NoFetch
  /\ cycles = 0
  /\ inflight = 0
  /\ tickAt = 0
  /\ tickC = 0
  /\ cache = [data |-> ZeroData, lastFetched |-> ZeroTime]
  /\ mu = [writer |-> FALSE, pending |-> FALSE, readers |-> 0]
  /\ heap = [p \in 1..ArraysWithin |-> << >>]
  /\ hpc = [r \in Readers |-> "idle"]
  /\ cachedData = [r \in Readers |-> ZeroData]
  /\ sent = NotSent
  /\ trace = << >>
  /\ results = << >>
  /\ published = << >>
  /\ upstream \in UpstreamReplies(StartClock)
  /\ page = NoPage

\* for range ticker.C: a buffered tick is received and refreshCache() called.
TickReceiveUnattended ==
  /\ rpc = "idle"
  /\ tickC = 1
  /\ tickC' = 0
  /\ RefreshEnter
  /\ sent' = NotSent
  /\ UNCHANGED << clock, interval, mainPc, fetched, cycles, inflight, tickAt,
                  cache, mu, handlerVars, trace, published, results,
                  outsideVars >>

\* for range ticker.C with no tick buffered: the task blocks until the next
\* tick, while that falls in the time followed.
TickWaitUnattended ==
  /\ rpc = "idle"
  /\ tickC = 0
  /\ tickAt < ObservedUntil
  /\ AdvanceClock(tickAt)
  /\ sent' = NotSent
  /\ UNCHANGED << interval, mainPc, refresherVars, cache, mu, heap, handlerVars,
                  outsideVars >>

NextUnattended ==
  \/ InitialRefresh
  \/ TickReceiveUnattended
  \/ TickWaitUnattended
  \/ CallUpstream
  \/ ReceiveFixedReply
  \/ PacingSleep
  \/ LockAnnounce
  \/ LockAcquire
  \/ WriteStops
  \/ WriteLastUpdated
  \/ WriteLastFetched
  \/ Unlock
  \/ ArmTicker
  \/ ListenAndServe

SpecUnattended == InitUnattended /\ [][NextUnattended]_vars

\* ------------------------------------------------- the page in a browser
\* static/app.js in one browser tab, from the moment the script runs.  The
\* server is serving and is not followed; what the page does depends on its
\* answers only through whether the configuration loads and when a request
\* for the arrivals returns.  page is the record
\*   pc               init(): "config" (awaiting /api/config), "arrivals"
\*                    (awaiting its fetchArrivals()), "ready" (done), "failed"
\*   hidden           document.hidden
\*   isLoading        the variable isLoading: a request for /api/arrivals is
\*                    in flight
\*   refreshInterval  the variable refreshInterval: a timer id, 0 for null
\*   timers           the interval timers the browser holds active
\*   nextId           the id the next setInterval returns
\*   changes          visibility changes so far
\*   last             history: the event handled by the last step, whether
\*                    a request was in flight before it and whether it
\*                    issued one

\* No event handled yet.
NoEvent == [ev |-> "", busy |-> FALSE, issued |-> FALSE]

\* The page as the script starts, the tab hidden or not.
NewPage(h) ==
  [pc |-> "config", hidden |-> h, isLoading |-> FALSE, refreshInterval |-> 0,
   timers |-> {}, nextId |-> 1, changes |-> 0, last |-> NoEvent]

\* fetchArrivals() up to its first await: nothing if a request is in flight,
\* otherwise the request is issued.
fetchArrivals(p) ==
  IF p.isLoading THEN p
  ELSE [p EXCEPT !.isLoading = TRUE, !.last.issued = TRUE]

\* Mutant of startAutoRefresh: a timer already running is not cleared.
startAutoRefresh_NoClear(p) ==
  [p EXCEPT !.refreshInterval = p.nextId,
            !.timers = @ \cup {p.nextId},
            !.nextId = @ + 1]

\* startAutoRefresh(): clearInterval of the timer held, then setInterval.
startAutoRefresh(p) ==
  LET q == IF p.refreshInterval # 0
           THEN [p EXCEPT !.timers = @ \ {p.refreshInterval}]
           ELSE p
  IN [q EXCEPT !.refreshInterval = q.nextId,
               !.timers = @ \cup {q.nextId},
               !.nextId = @ + 1]

\* stopAutoRefresh()
stopAutoRefresh(p) ==
  IF p.refreshInterval # 0
  THEN [p EXCEPT !.timers = @ \ {p.refreshInterval}, !.refreshInterval = 0]
  ELSE p

\* The page with the event ev recorded as the one being handled.
Handling(p, ev) ==
  [p EXCEPT !.last = [ev |-> ev, busy |-> p.isLoading, issued |-> FALSE]]

InitBrowser ==
  /\ ServingState(StartClock,
                  [k \in 1..TotalDirections |->
                     ScheduleReply(FixedSchedule, StartClock)])
  /\ upstream = NoReply
  /\ page \in {NewPage(h) : h \in BOOLEAN}

serverVars ==
  << clock, interval, mainPc, refresherVars, tickerVars, cache, mu, heap,
     handlerVars, sent, upstream >>

\* init(): /api/config is loaded; fetchArrivals() is called and awaited.  If
\* a request is already in flight it returns at once and init() goes on to
\* startAutoRefresh() and setupVisibilityHandler().
ConfigLoaded ==
  /\ page.pc = "config"
  /\ page' = IF page.isLoading
             THEN [startAutoRefresh(Handling(page, "load")) EXCEPT !.pc = "ready"]
             ELSE [fetchArrivals(Handling(page, "load")) EXCEPT !.pc = "arrivals"]
  /\ UNCHANGED serverVars

\* init(): loading /api/config fails; the catch block shows the error.
ConfigFailed ==
  /\ page.pc = "config"
  /\ page' = [Handling(page, "error") EXCEPT !.pc = "failed"]
  /\ UNCHANGED serverVars

\* The request for /api/arrivals returns (with data or an error): isLoading
\* is reset; if init() was awaiting it, init() goes on to startAutoRefresh()
\* and setupVisibilityHandler().
ArrivalsReturn ==
  /\ page.isLoading
  /\ page' = LET p == [Handling(page, "return") EXCEPT !.isLoading = FALSE]
             IN IF page.pc = "arrivals"
                THEN [startAutoRefresh(p) EXCEPT !.pc = "ready"]
                ELSE p
  /\ UNCHANGED serverVars

\* The tab is hidden or shown; the visibilitychange listener, once
\* installed, stops the auto-refresh or fetches and restarts it.
VisibilityChange ==
  /\ page.changes < MaxPageEvents
  /\ page' = LET p == [Handling(page, IF page.hidden THEN "visible" ELSE "hidden")
                        EXCEPT !.hidden = ~page.hidden, !.changes = @ + 1]
             IN IF page.pc # "ready" THEN p
                ELSE IF p.hidden THEN stopAutoRefresh(p)
                ELSE startAutoRefresh(fetchArrivals(p))
  /\ UNCHANGED serverVars

\* An active interval timer fires: fetchArrivals() unless the tab is hidden.
TimerFires ==
  /\ \E id \in page.timers :
       page' = IF ~page.hidden THEN fetchArrivals(Handling(page, "timer"))
               ELSE Handling(page, "timer")
  /\ UNCHANGED serverVars

\* The refresh button is clicked.
ManualRefresh ==
  /\ page' = fetchArrivals(Handling(page, "click"))
  /\ UNCHANGED serverVars

NextBrowser ==
  \/ ConfigLoaded
  \/ ConfigFailed
  \/ ArrivalsReturn
  \/ VisibilityChange
  \/ TimerFires
  \/ ManualRefresh

SpecBrowser == InitBrowser /\ [][NextBrowser]_vars

\* ------------------------------------------------------------- properties
\* The values of cache.data that are whole: the initial empty value and the
\* value each completed cycle left.
WholeSnapshots == {ZeroData} \cup {published[k].data : k \in 1..Len(published)}

\* C1: no read tearing.  The copy of cache.data a handler holds once it has
\* released the read lock, and the copy every response was computed from, is
\* the initial empty value or exactly the value one completed refresh cycle
\* wrote: never the Stops of one snapshot with the LastUpdated of another.
C1_NoReadTearing ==
  /\ \A r \in Readers : hpc[r] = "project" => cachedData[r] \in WholeSnapshots
  /\ sent.n = 1 => sent.header \in WholeSnapshots

\* Two handlers hold copies taken on either side of a cache write; the two
\* snapshots differ in both fields.
C1_Witness ==
  /\ Len(published) = 2
  /\ published[1].data.Stops # published[2].data.Stops
  /\ published[1].data.LastUpdated # published[2].data.LastUpdated
  /\ \E r1, r2 \in Readers :
       /\ hpc[r1] = "project" /\ cachedData[r1] = published[1].data
       /\ hpc[r2] = "project" /\ cachedData[r2] = published[2].data

\* The upstream calls of cycle c, in the order issued, and the stops asked for.
CallsOf(c) == SelectSeq(trace, LAMBDA e : e.ev = "call" /\ e.cycle = c)
StopIDsOf(c) ==
  LET calls == CallsOf(c) IN [k \in 1..Len(calls) |-> calls[k].stop]
IsPrefix(s, t) == Len(s) <= Len(t) /\ s = SubSeq(t, 1, Len(s))

\* C2: within one refresh cycle the upstream calls are issued sequentially in
\* configuration order: at most one request is in flight at any moment, the
\* stops requested so far in a cycle are a prefix of the flattened
\* configuration order, and those of a completed cycle are all of it.
C2_SequentialConfigOrder ==
  /\ inflight <= 1
  /\ \A c \in 1..(cycles + 1) :
       LET requested == StopIDsOf(c)
       IN  /\ IsPrefix(requested, FlatStopIDs)
           /\ c <= cycles => requested = FlatStopIDs

\* Two cycles have completed, and a request has been in flight.
C2_Witness ==
  /\ cycles = 2
  /\ StopIDsOf(2) = FlatStopIDs
  /\ Len(FlatStopIDs) >= 3

\* The positions of the events of kind ev in the trace.
Positions(ev) == {k \in 1..Len(trace) : trace[k].ev = ev}
PacedBetween(a, b) ==
  \E m \in (a + 1)..(b - 1) : trace[m].ev = "sleep" /\ trace[m].ms = PacingMs

\* C3: pacing.  Between any two upstream calls, in the same stop, across
\* stops or across cycles, lies a full pacing sleep and at least 1.5 s of
\* wall time; and when a cycle writes the cache it has slept exactly once
\* per configured direction, the last time after its last call.
C3_Pacing ==
  LET calls == Positions("call")
  IN  /\ \A a, b \in calls :
           a < b => /\ PacedBetween(a, b)
                    /\ trace[b].at - trace[a].at >= PacingMs
      /\ \A w \in Positions("write") :
           /\ Cardinality({m \in 1..(w - 1) :
                             /\ trace[m].ev = "sleep"
                             /\ trace[m].cycle = trace[w].cycle})
                = TotalDirections
           /\ \A a \in calls : a < w => PacedBetween(a, w)

\* The second cycle has written the cache: calls were paced within a stop,
\* across the stop boundary and across the two cycles.
C3_Witness ==
  /\ Cardinality(Positions("write")) = 2
  /\ Cardinality(Positions("sleep")) = 2 * TotalDirections
  /\ \E a, b \in Positions("call") : trace[a].cycle = 1 /\ trace[b].cycle = 2

\* The snapshot the running cycle is building (empty between cycles).
Building == IF response.Stops.ptr = 0 THEN << >> ELSE heap[response.Stops.ptr]
\* The snapshot the cache holds.
Cached == Elements(cache.data.Stops)
\* The (stop, direction) index pairs of a snapshot, and its direction entries.
DirIndex(stops) ==
  {<< i, j >> \in (1..Len(stops)) \X (1..TotalDirections) :
     j <= Len(stops[i].Directions)}
DirectionsOf(stops) == {stops[x[1]].Directions[x[2]] : x \in DirIndex(stops)}

\* The position of direction (i, j) in the flattened configuration order.
RECURSIVE FlatIndex(_, _)
FlatIndex(i, j) ==
  IF i = 1 THEN j ELSE Len(Stops[i - 1].Directions) + FlatIndex(i - 1, j)

\* What the entry of direction (i, j) must be, given only the outcome f of
\* that direction's own upstream call.
OwnEntry(i, j, f) ==
  [Label |-> Stops[i].Directions[j].Label,
   StopID |-> Stops[i].Directions[j].StopID,
   Arrivals |-> IF f.failed THEN << >> ELSE f.arrivals,
   Error |-> IF f.failed THEN UnableToFetch ELSE "",
   QualityWarning |-> "", QualityLevel |-> ""]

\* What the entry of direction (i, j) is before its call has returned: not
\* there yet (its stop not entered), zero, or initialised for the call.
Unfetched(i, j) ==
  IF Building[i] = ZeroStop THEN TRUE
  ELSE Building[i].Directions[j]
         \in {ZeroDirection, OwnEntry(i, j, [failed |-> FALSE, arrivals |-> << >>])}

\* In the snapshot under construction every direction whose call has
\* returned holds exactly what its own call returned, and no other
\* direction has been touched.
C4_StoredFromOwnResult ==
  response.Stops.ptr # 0 =>
    /\ Len(Building) = Len(Stops)
    /\ \A i \in 1..Len(Stops) : \A j \in 1..Len(Stops[i].Directions) :
         IF FlatIndex(i, j) <= Len(results)
         THEN Building[i].Directions[j] = OwnEntry(i, j, results[FlatIndex(i, j)])
         ELSE Unfetched(i, j)

\* Each direction of a response is the projection of that direction's own
\* cached entry.
C4_ProjectedFromOwnEntry ==
  sent.n = 1 =>
    /\ Len(sent.body.Stops) = Len(sent.stops)
    /\ \A i \in 1..Len(sent.stops) :
         /\ Len(sent.body.Stops[i].Directions) = Len(sent.stops[i].Directions)
         /\ \A j \in 1..Len(sent.stops[i].Directions) :
              sent.body.Stops[i].Directions[j]
                = ProjectDirection(sent.stops[i].Directions[j], sent.at)

\* C4: failure isolation.  In a refresh cycle the entry stored for a
\* direction is determined by the outcome of that direction's own upstream
\* call, and a failure leaves every other direction and stop of the
\* snapshot as its own call left it; in a response every direction is the
\* projection of its own cached entry, whatever the other directions hold.
C4_FailureIsolation == C4_StoredFromOwnResult /\ C4_ProjectedFromOwnEntry

\* In the second cycle a direction has just failed after the direction
\* before it, in the same stop, was fetched; and the response just sent
\* carries a failed direction beside one with arrivals.
C4_Witness ==
  /\ rpc = "sleep" /\ ri = 1 /\ rj = 2 /\ fetched.err # ""
  /\ Building[1].Directions[1].Arrivals # << >>
  /\ Building[1].Directions[1].Error = ""
  /\ sent.n = 1
  /\ sent.body.Stops[1].Directions[1].Error = UnableToFetch
  /\ sent.body.Stops[1].Directions[2].Arrivals # << >>
  /\ sent.body.Stops[1].Directions[2].Error = ""

ErrorMarked(d) ==
  /\ d.Error \in {"", UnableToFetch}
  /\ d.Error # "" => d.Arrivals = << >>

\* C5: a direction whose upstream call fails, for whichever cause, is stored
\* with error exactly "Unable to fetch" and no arrivals, and the cycle goes
\* on to its pacing sleep; in every cached snapshot and every response the
\* error of a direction is empty or exactly "Unable to fetch", and a
\* direction with an error has no arrivals.
C5_UnableToFetch ==
  /\ (rpc = "sleep" /\ fetched.err # "") =>
       /\ Building[ri].Directions[rj].Error = UnableToFetch
       /\ Building[ri].Directions[rj].Arrivals = << >>
       /\ ENABLED PacingSleep
  /\ \A d \in DirectionsOf(Cached) : ErrorMarked(d)
  /\ sent.n = 1 => \A d \in DirectionsOf(sent.body.Stops) : ErrorMarked(d)

\* The cache holds a failed direction from the first cycle, the second cycle
\* has just had a call answered with a non-200 status, and a response
\* carrying an error marker has just been sent.
C5_Witness ==
  /\ \E d \in DirectionsOf(Cached) : d.Error = UnableToFetch
  /\ rpc = "sleep" /\ fetched.err = "HTTP error" /\ cycles = 1
  /\ sent.n = 1
  /\ \E d \in DirectionsOf(sent.body.Stops) : d.Error = UnableToFetch

\* The number of upstream calls of cycle c for stop s.
CountCalls(c, s) ==
  Cardinality({k \in 1..Len(trace) :
                 trace[k].ev = "call" /\ trace[k].cycle = c /\ trace[k].stop = s})

\* C6: no retry within a cycle.  Every configured direction is requested at
\* most once in a cycle and exactly once in a completed cycle, whatever its
\* call returned, so a completed cycle has issued exactly as many requests
\* as there are configured directions.
C6_NoMidCycleRetry ==
  \A c \in 1..(cycles + 1) :
    LET issued == Len(CallsOf(c))
    IN  /\ \A k \in 1..TotalDirections :
             LET n == CountCalls(c, FlatStopIDs[k])
             IN  n <= 1 /\ (c <= cycles => n = 1)
        /\ issued <= TotalDirections
        /\ c <= cycles => issued = TotalDirections

\* The first direction failed in the first cycle, which requested it once;
\* the second cycle has now requested it again.
C6_Witness ==
  /\ cycles = 1
  /\ rpc = "wait" /\ ri = 1 /\ rj = 1
  /\ Cached[1].Directions[1].Error = UnableToFetch
  /\ CountCalls(1, FlatStopIDs[1]) = 1
  /\ CountCalls(2, FlatStopIDs[1]) = 1

IssuedInCycle ==
  CASE rpc \in {"begin", "arm", "idle"} -> 0
    [] rpc = "call" -> FlatIndex(ri, rj) - 1
    [] rpc \in {"wait", "sleep"} -> FlatIndex(ri, rj)
    [] OTHER -> TotalDirections

\* C8: serving a client request never issues an upstream call.  The number
\* of upstream requests issued so far is the number the refresh task's own
\* progress accounts for (the completed cycles and its position in the
\* running one), and a request is in flight only while the refresh task
\* waits for it, however many client requests have been served.
C8_HandlerIssuesNoCall ==
  /\ Cardinality(Positions("call")) = cycles * TotalDirections + IssuedInCycle
  /\ inflight = (IF rpc = "wait" THEN 1 ELSE 0)

\* A response computed from an all-failed snapshot has just been sent while
\* the refresh task has a request in flight.
C8_Witness ==
  /\ sent.n = 1
  /\ AllFailed(sent.stops)
  /\ Len(sent.stops) > 0
  /\ inflight = 1

\* The response body has one stop per configured stop and one direction per
\* configured direction, in configuration order, with the configured names.
ConfigShaped(body) ==
  /\ Len(body.Stops) = Len(Stops)
  /\ \A i \in 1..Len(Stops) :
       /\ body.Stops[i].Name = Stops[i].Name
       /\ body.Stops[i].Line = Stops[i].Line
       /\ Len(body.Stops[i].Directions) = Len(Stops[i].Directions)
       /\ \A j \in 1..Len(Stops[i].Directions) :
            /\ body.Stops[i].Directions[j].Label = Stops[i].Directions[j].Label
            /\ body.Stops[i].Directions[j].StopID = Stops[i].Directions[j].StopID

\* C9: once a refresh cycle has completed, every /api/arrivals response is
\* non-blank: one stop entry per configured stop and one direction entry per
\* configured direction, in configuration order with the configured names,
\* labels and stop identifiers, and last_updated is not "Loading...", also
\* when every direction failed.
C9_NonBlankResponse ==
  (sent.n = 1 /\ sent.cycles >= 1) =>
    /\ ConfigShaped(sent.body)
    /\ sent.body.LastUpdated # Loading
    /\ sent.body.LastUpdated # << >>

\* No completed cycle fetched any direction.
NoGoodCycle == \A k \in 1..Len(published) : ~published[k].ok

\* Two cycles have completed, both failed for every direction, and a
\* response has just been sent.
C9_Witness ==
  /\ sent.n = 1
  /\ sent.cycles = 2
  /\ NoGoodCycle
  /\ AllFailed(sent.body.Stops)

\* The defined empty state.
EmptyState == [Stops |-> << >>, LastUpdated |-> Loading]

\* C10 as stated: a request served before the first successful refresh cycle
\* has completed is answered with stops = [] and last_updated "Loading...".
C10_EmptyBeforeFirstSuccess ==
  (sent.n = 1 /\ NoGoodCycle) => sent.body = EmptyState

\* C10, amended: no request is served before the initial refresh cycle has
\* completed, so the empty state, which handleArrivals returns exactly when
\* the snapshot it copied has no stops, is never returned; a request served
\* before any cycle has fetched a direction is answered from the last
\* completed cycle's snapshot: every configured stop and direction, each
\* direction with the error marker, and last_updated the time of the request.
C10_AllErrorBeforeFirstSuccess ==
  sent.n = 1 =>
    /\ sent.cycles >= 1
    /\ sent.body = EmptyState <=> sent.header.Stops.len = 0
    /\ sent.header.Stops.len > 0
    /\ NoGoodCycle =>
         /\ ConfigShaped(sent.body)
         /\ \A d \in DirectionsOf(sent.body.Stops) :
              d.Error = UnableToFetch /\ d.Arrivals = << >>
         /\ sent.body.LastUpdated = Format(sent.at)

\* The initial cycle, the only one completed, failed for every direction and
\* a response has just been sent.
C10_Witness ==
  /\ sent.n = 1
  /\ sent.cycles = 1
  /\ NoGoodCycle

\* ------------------------------------------------ projection of a request
\* The (stop, direction) pairs of the response just sent, the cached entry
\* each was projected from and the entry sent.
SentIndex == DirIndex(sent.stops)
CachedDir(x) == sent.stops[x[1]].Directions[x[2]]
SentDir(x) == sent.body.Stops[x[1]].Directions[x[2]]

\* C11: no arrival in a response has minutes < 0, whatever the cached
\* snapshot and the time of the request.
C11_NoNegativeMinutes ==
  sent.n = 1 =>
    \A x \in SentIndex :
      \A k \in 1..Len(SentDir(x).Arrivals) : SentDir(x).Arrivals[k].Minutes >= 0

\* A response from a snapshot with an arrival more than a minute in the
\* past, which it leaves out, and later arrivals, which it carries.
C11_Witness ==
  /\ sent.n = 1
  /\ \E x \in SentIndex :
       /\ \E k \in 1..Len(CachedDir(x).Arrivals) :
            CachedDir(x).Arrivals[k].ArrivalTime.t <= sent.at - MsPerMinute
       /\ Len(SentDir(x).Arrivals) > 0
       /\ Len(SentDir(x).Arrivals) < Len(CachedDir(x).Arrivals)

\* The arrival times a direction entry lists, in order.
TimesOf(dir) == [k \in 1..Len(dir.Arrivals) |-> dir.Arrivals[k].ArrivalTime.t]

\* C12 as stated: minutes is the difference (arrival time - now) in minutes
\* rounded down, and every cached arrival whose time is strictly earlier than
\* now, be it by a few seconds, is absent from the response.
C12_FloorDropsEveryPast ==
  sent.n = 1 =>
    \A x \in SentIndex :
      /\ \A k \in 1..Len(SentDir(x).Arrivals) :
           SentDir(x).Arrivals[k].Minutes
             = (SentDir(x).Arrivals[k].ArrivalTime.t - sent.at) \div MsPerMinute
      /\ \A k \in 1..Len(CachedDir(x).Arrivals) :
           CachedDir(x).Arrivals[k].ArrivalTime.t < sent.at =>
             \A n \in 1..Len(SentDir(x).Arrivals) :
               TimesOf(SentDir(x))[n] # TimesOf(CachedDir(x))[k]

\* The cached arrivals of a direction that the request at time now does not
\* drop, in cached order.
Survivors(dir, now) ==
  SelectSeq(dir.Arrivals,
            LAMBDA a : ParseOK(a.ArrivalTime)
                       /\ TruncMinutes(a.ArrivalTime.t - now) >= 0)

\* C13: for every direction without error the arrivals sent are the first
\* min(3, k) of its k surviving cached arrivals, in cached order (same
\* times, destinations and lines): never more than 3, never re-sorted.
C13_FirstThreeInOrder ==
  sent.n = 1 =>
    \A x \in SentIndex :
      CachedDir(x).Error = "" =>
        LET surv == Survivors(CachedDir(x), sent.at)
            out == SentDir(x).Arrivals
        IN /\ Len(out) <= MaxArrivals
           /\ Len(out) = IF Len(surv) < MaxArrivals THEN Len(surv) ELSE MaxArrivals
           /\ \A k \in 1..Len(out) :
                /\ out[k].ArrivalTime = surv[k].ArrivalTime
                /\ out[k].Destination = surv[k].Destination
                /\ out[k].LineType = surv[k].LineType

\* A response for a direction with four survivors among five cached
\* arrivals that are not in chronological order: three are sent, the first
\* later than the second.
C13_Witness ==
  /\ sent.n = 1
  /\ \E x \in SentIndex :
       /\ Len(CachedDir(x).Arrivals) = 5
       /\ Len(Survivors(CachedDir(x), sent.at)) = 4
       /\ Len(SentDir(x).Arrivals) = 3
       /\ TimesOf(SentDir(x))[1] > TimesOf(SentDir(x))[2]

\* C14: a direction cached with a fetch error is sent with the same error
\* marker, no arrivals, no quality warning and no quality level, at any
\* request time.
C14_ErrorDirectionProjected ==
  sent.n = 1 =>
    \A x \in SentIndex :
      CachedDir(x).Error # "" =>
        SentDir(x) = [Label |-> CachedDir(x).Label, StopID |-> CachedDir(x).StopID,
                      Arrivals |-> << >>, Error |-> CachedDir(x).Error,
                      QualityWarning |-> "", QualityLevel |-> ""]

\* A response, some time after the cache write, with a failed direction
\* next to a direction that has a quality level.
C14_Witness ==
  /\ sent.n = 1
  /\ sent.at > cache.lastFetched
  /\ \E x, y \in SentIndex :
       /\ CachedDir(x).Error = UnableToFetch
       /\ SentDir(x).Error = UnableToFetch
       /\ SentDir(y).QualityLevel # ""

\* Two responses in a row, the second not earlier than the first, computed
\* from the same cached snapshot.
SameSnapshotAgain ==
  /\ sent.n = 1
  /\ sent'.n = 1
  /\ sent'.stops = sent.stops
  /\ sent'.at >= sent.at

\* C16 as stated: for a fixed snapshot, an arrival sent at time now with
\* minutes m is, at now + D for D whole minutes, either left out or sent
\* with minutes exactly m - D.
C16_MinutesDecreaseByElapsed ==
  [][(SameSnapshotAgain /\ (sent'.at - sent.at) % MsPerMinute = 0) =>
       \A x \in SentIndex :
         \A k \in 1..Len(SentDir(x).Arrivals) :
           \A n \in 1..Len(SentDir(x)'.Arrivals) :
             SentDir(x)'.Arrivals[n].ArrivalTime = SentDir(x).Arrivals[k].ArrivalTime =>
               SentDir(x)'.Arrivals[n].Minutes
                 = SentDir(x).Arrivals[k].Minutes - (sent'.at - sent.at) \div MsPerMinute
    ]_vars

\* The second of the day a time falls in.
SecondOfDay(t) == (t % MsPerDay) \div MsPerSecond

\* In a response from a non-empty cache last_updated is the formatted time
\* of the request and not the LastUpdated string stored in the snapshot.
FromRequestTime(s) ==
  (s.n = 1 /\ s.header.Stops.len > 0) =>
    /\ s.body.LastUpdated = Format(s.at)
    /\ s.body.LastUpdated # s.header.LastUpdated

\* C17 as stated: last_updated comes from the wall-clock time of the
\* request, never from the snapshot, and two requests at different times
\* against the same unchanged snapshot report different last_updated values.
C17_DifferentTimesDifferentStamps ==
  [][/\ FromRequestTime(sent')
     /\ (SameSnapshotAgain /\ sent'.at # sent.at) =>
          sent'.body.LastUpdated # sent.body.LastUpdated
    ]_vars

\* C17, amended: last_updated is the wall-clock time of the request
\* formatted to the second (h:mm:ss AM/PM), not the string stored in the
\* snapshot; two requests against the same unchanged snapshot report
\* different values exactly when their times fall in different seconds of
\* the day, and the same value when they fall in the same second.
C17_StampIsRequestSecond ==
  [][/\ FromRequestTime(sent')
     /\ SameSnapshotAgain =>
          (sent'.body.LastUpdated = sent.body.LastUpdated
             <=> SecondOfDay(sent'.at) = SecondOfDay(sent.at))
    ]_vars

\* A response has been sent and, the same second but later, a handler is
\* about to answer from the same snapshot.
C17_Witness ==
  /\ sent.n = 1
  /\ clock > sent.at
  /\ SecondOfDay(clock) = SecondOfDay(sent.at)
  /\ \E r \in Readers : hpc[r] = "project" /\ cachedData[r] = sent.header

\* ------------------------------------------------- quality of a direction
\* What detectQualityIssues returned for direction x of the response just
\* sent, and the arrival times it was given (those sent).
QualityOf(x) == << SentDir(x).QualityWarning, SentDir(x).QualityLevel >>
Analysed == {x \in SentIndex : CachedDir(x).Error = ""}

GapWarning == << "Incomplete data - large gap in arrivals", "warning" >>
FarWarning == << "Next arrival unusually far away", "warning" >>
LimitedWarning == << "Limited schedule data available", "warning" >>
Good == << "", "good" >>

\* Some arrival is more than 40 minutes after the one listed before it.
LargeGap(times) ==
  \E i \in 2..Len(times) : times[i] - times[i - 1] > GapMinutes * MsPerMinute

FarAway(times, now) ==
  /\ Len(times) > 0
  /\ Hour(now) >= 6 /\ Hour(now) < 22
  /\ times[1] - now > FarMinutes * MsPerMinute

\* C20: when no gap exceeds 40 minutes, detectQualityIssues returns the
\* far-away warning exactly when the local hour h satisfies 6 <= h < 22 and
\* the first arrival in the list is more than 90 minutes after now; outside
\* those hours, or with the first arrival at 90 minutes or less, never.
C20_FarAwayWarning ==
  sent.n = 1 =>
    \A x \in Analysed :
      /\ ~LargeGap(TimesOf(SentDir(x))) =>
           (QualityOf(x) = FarWarning <=> FarAway(TimesOf(SentDir(x)), sent.at))
      /\ QualityOf(x) = FarWarning => FarAway(TimesOf(SentDir(x)), sent.at)

\* A response in the hour from 21:00 with the far-away warning for a
\* direction whose only arrival is 92 minutes away.
C20_Witness ==
  /\ sent.n = 1
  /\ Hour(sent.at) = 21
  /\ \E x \in Analysed :
       /\ QualityOf(x) = FarWarning
       /\ TimesOf(SentDir(x)) = << sent.at + 92 * MsPerMinute >>

\* The local hour is in a peak window: 7 to 9 or 16 to 19, that is 07:00
\* to 09:59 and 16:00 to 19:59.
PeakHour(now) ==
  (Hour(now) >= 7 /\ Hour(now) <= 9) \/ (Hour(now) >= 16 /\ Hour(now) <= 19)

\* Exactly one arrival, under 90 minutes away, in a peak window.
LimitedData(times, now) ==
  /\ PeakHour(now)
  /\ Len(times) = 1
  /\ times[1] - now < FarMinutes * MsPerMinute

VerdictOn(times, now) ==
  IF Len(times) = 0 THEN Good
  ELSE IF LargeGap(times) THEN GapWarning
  ELSE IF FarAway(times, now) THEN FarWarning
  ELSE IF LimitedData(times, now) THEN LimitedWarning
  ELSE Good

\* The minutes a direction entry lists, in order.
MinutesOf(dir) == [k \in 1..Len(dir.Arrivals) |-> dir.Arrivals[k].Minutes]

\* C21: the quality warning and level sent for a direction are those of the
\* arrivals sent (at most three) and the time of the request: cached
\* arrivals beyond the third survivor and arrivals dropped as past have no
\* influence.  Cached arrivals 3, 9, 18 and 50 minutes after the request are
\* sent as minutes 3, 9, 18 with level "good".
C21_QualityOfEmitted ==
  sent.n = 1 =>
    \A x \in Analysed :
      /\ QualityOf(x) = VerdictOn(TimesOf(SentDir(x)), sent.at)
      /\ TimesOf(CachedDir(x))
            = << sent.at + 3 * MsPerMinute, sent.at + 9 * MsPerMinute,
                 sent.at + 18 * MsPerMinute, sent.at + 50 * MsPerMinute >>
           => /\ MinutesOf(SentDir(x)) = << 3, 9, 18 >>
              /\ QualityOf(x) = Good

\* A response in a peak hour with a direction judged good whose fourth
\* cached arrival, cut by the cap, is more than 40 minutes after the third,
\* and a direction with the limited-data warning for the one arrival left
\* of three cached, two having been dropped as past.
C21_Witness ==
  /\ sent.n = 1
  /\ PeakHour(sent.at)
  /\ \E x, y \in Analysed :
       /\ Len(CachedDir(x).Arrivals) = 4
       /\ LargeGap(TimesOf(CachedDir(x)))
       /\ Len(SentDir(x).Arrivals) = 3
       /\ QualityOf(x) = Good
       /\ Len(CachedDir(y).Arrivals) = 3
       /\ Len(SentDir(y).Arrivals) = 1
       /\ QualityOf(y) = LimitedWarning

UsedTime(v) ==
  IF v.ExpectedArrivalTime # EmptyStr THEN v.ExpectedArrivalTime
  ELSE v.ExpectedDepartureTime
Counts(v) == UsedTime(v).kind = "rfc3339"

\* The reply is a response with status 200 whose body was read and unmarshals.
Parseable(reply) ==
  reply.transport /\ reply.readable /\ reply.status = 200 /\ reply.json

\* C23: for a parseable reply fetchStopArrivals returns without error one
\* arrival per visit whose time (the expected arrival time when present,
\* otherwise the expected departure time) is a valid timestamp, in upstream
\* order, with that time, the visit's destination and line; the other visits
\* are skipped; nothing is sorted, merged or cut.  The direction's cached
\* entry receives exactly that list.
C23_OnePerValidVisit ==
  (fetched.done /\ Parseable(upstream)) =>
    LET kept == SelectSeq(upstream.visits, Counts)
    IN /\ fetched.err = ""
       /\ Len(fetched.arrivals) = Len(kept)
       /\ \A k \in 1..Len(kept) :
            /\ fetched.arrivals[k].ArrivalTime = UsedTime(kept[k])
            /\ fetched.arrivals[k].Destination = kept[k].DestinationName
            /\ fetched.arrivals[k].LineType = kept[k].LineRef
       /\ heap[response.Stops.ptr][ri].Directions[rj].Arrivals = fetched.arrivals
       /\ heap[response.Stops.ptr][ri].Directions[rj].Error = ""

\* A reply of four visits returned as three arrivals: one visit with a time
\* that does not parse is skipped, the first arrival is later than the
\* second, and the second and third are the same.
C23_Witness ==
  /\ fetched.done
  /\ Parseable(upstream)
  /\ Len(upstream.visits) = 4
  /\ \E k \in 1..4 : UsedTime(upstream.visits[k]) = BadStr
  /\ Len(fetched.arrivals) = 3
  /\ fetched.arrivals[1].ArrivalTime.t > fetched.arrivals[2].ArrivalTime.t
  /\ fetched.arrivals[2] = fetched.arrivals[3]

\* ------------------------------------------------- requests to the upstream
\* The refresh cycles started so far: number and time of the first call.
CycleStarts ==
  {<< trace[k].cycle, trace[k].at >> :
     k \in {n \in Positions("call") : trace[n].stop = FlatStopIDs[1]}}

\* The number of cycles started in the hour from time s.
StartsInHourFrom(s) ==
  Cardinality({x \in CycleStarts : x[2] >= s /\ x[2] < s + MsPerHour})

\* C24 as documented: with the default settings a refresh cycle starts every
\* 5 minutes, so that no more than 12 cycles start in any hour and, at one
\* request per direction and cycle, 4 directions stay under the upstream's
\* 60 requests per hour.
C24_DocumentedBudget ==
  /\ \A x, y \in CycleStarts :
       y[1] = x[1] + 1 => y[2] - x[2] = DocumentedRefreshMinutes * MsPerMinute
  /\ \A x \in CycleStarts :
       /\ StartsInHourFrom(x[2]) <= DocumentedRefreshesPerHour
       /\ StartsInHourFrom(x[2]) * DocumentedDirections < UpstreamQuota

\* C25 as stated: a server no client ever connects to issues no request to
\* the upstream.
C25_NoClientNoUpstreamCall ==
  \A k \in 1..Len(trace) : trace[k].ev # "call"

\* ------------------------------------------------- auto-refresh in the page
\* The browser holds at most one interval timer, the one in refreshInterval.
OneTimer ==
  page.timers = IF page.refreshInterval = 0 THEN {} ELSE {page.refreshInterval}

\* No request issued by a timer while the tab is hidden.
NoTimerFetchHidden ==
  (page.last.ev = "timer" /\ page.last.issued) => ~page.hidden

\* C26 as stated: while the tab is hidden no timer issues a request; when
\* the tab becomes visible one request is issued at once and the
\* auto-refresh runs again; at most one interval timer is active.
C26_VisibleFetchesAtOnce ==
  /\ NoTimerFetchHidden
  /\ page.last.ev = "visible" =>
       (page.last.issued /\ page.refreshInterval # 0)
  /\ OneTimer

\* C26, amended: while the tab is hidden no timer issues a request; once
\* init() has completed, when the tab becomes visible a request for the
\* arrivals is in flight at once (issued by the listener unless one was in
\* flight already, and then none is issued) and a new interval timer runs;
\* at most one interval timer is active at any time.
C26_PausedWhileHidden ==
  /\ NoTimerFetchHidden
  /\ (page.pc = "ready" /\ page.last.ev = "visible") =>
       /\ page.isLoading
       /\ page.last.issued <=> ~page.last.busy
       /\ page.refreshInterval = page.nextId - 1
  /\ (page.pc # "ready" /\ page.last.ev = "visible") =>
       (~page.last.issued /\ page.refreshInterval = 0)
  /\ (page.pc = "ready" /\ page.last.ev = "hidden") => page.timers = {}
  /\ OneTimer

\* The tab of a page that completed init() while hidden, with its first
\* timer running, has become visible: the request is issued and a second
\* timer replaces the first.
C26_Witness ==
  /\ page.pc = "ready"
  /\ page.last = [ev |-> "visible", busy |-> FALSE, issued |-> TRUE]
  /\ page.timers = {2}

\* ------------------------------------------------------- the cache's lock
\* The handlers between cache.mu.RLock() and cache.mu.RUnlock(), and whether
\* the refresh task is between cache.mu.Lock() and cache.mu.Unlock().
InReadSection == {r \in Readers : hpc[r] = "copying"}
InWriteSection == rpc \in {"wstops", "wlast", "wtime", "unlock"}

\* The time of the last cache write on record.
LastWriteAt ==
  LET w == Positions("write")
  IN trace[CHOOSE k \in w : \A n \in w : n <= k].at

\* C27: no handler is in its read section while the refresh task is in its
\* write section, and the lock's state says who is inside; outside the write
\* section cache.data and cache.lastFetched belong together: both are unset
\* before the first write, and afterwards they are the snapshot and the
\* write time of the last completed cycle, so that lastFetched is set if
\* and only if a snapshot has been written.
C27_LockDiscipline ==
  /\ ~(InWriteSection /\ InReadSection # {})
  /\ mu.writer <=> InWriteSection
  /\ mu.readers = Cardinality(InReadSection)
  /\ ~InWriteSection =>
       /\ cache.lastFetched # ZeroTime <=> cache.data # ZeroData
       /\ cache.lastFetched # ZeroTime <=> cycles > 0
       /\ cycles > 0 => /\ cache.data = published[cycles].data
                         /\ cache.lastFetched = LastWriteAt

\* Two handlers are in the read section at once while the refresh task, its
\* second snapshot built, waits for the write lock.
C27_Witness ==
  /\ Cardinality(InReadSection) >= 2
  /\ rpc = "lockwait"
  /\ cycles > 0
  /\ cache.lastFetched # ZeroTime

\* ------------------------------------------------- one write for each cycle
\* A refresh cycle is under way and has not reached its write section.
CycleUnderWay == rpc \in {"call", "wait", "sleep", "lock", "lockwait"}

\* The value of cache.data the last completed cycle left.
PreviousSnapshot == IF cycles = 0 THEN ZeroData ELSE published[cycles].data

\* The positions in the trace of the events ev of cycle c.
EventsOf(c, ev) == {k \in Positions(ev) : trace[k].cycle = c}

\* Every direction entry of the stops carries the result of a call: the
\* error marker or arrivals (every successful reply of UpstreamReplies
\* carries some).
Filled(stops) ==
  /\ Len(stops) = Len(Stops)
  /\ \A x \in DirIndex(stops) :
       LET d == stops[x[1]].Directions[x[2]]
       IN d.Label # "" /\ (d.Error # "" \/ d.Arrivals # << >>)

\* C28: each completed cycle wrote the cache exactly once, the running one
\* at most once, and each write comes after the call and the pacing sleep
\* of every configured direction of its cycle.  While a cycle is under way
\* the cache still holds what the previous cycle left, in an array apart
\* from the one being filled, which no handler has a copy of; and every
\* response is computed from a filled snapshot.
C28_OneWritePerCycle ==
  /\ \A c \in 1..(cycles + 1) :
       /\ Cardinality(EventsOf(c, "write")) <= 1
       /\ c <= cycles => Cardinality(EventsOf(c, "write")) = 1
       /\ \A w \in EventsOf(c, "write") :
            /\ Cardinality(EventsOf(c, "call")) = TotalDirections
            /\ Cardinality(EventsOf(c, "sleep")) = TotalDirections
            /\ \A k \in EventsOf(c, "call") \cup EventsOf(c, "sleep") : k < w
  /\ CycleUnderWay =>
       /\ cache.data = PreviousSnapshot
       /\ cache.data.Stops.ptr # response.Stops.ptr
       /\ \A r \in Readers : cachedData[r].Stops.ptr # response.Stops.ptr
       /\ cycles > 0 => Filled(Cached)
  /\ (sent.n = 1 /\ sent.header # ZeroData) => Filled(sent.stops)

\* A response sent while the second cycle is under way with some but not
\* all of its directions fetched: it was computed from the first cycle's
\* snapshot.
C28_Witness ==
  /\ sent.n = 1
  /\ cycles = 1
  /\ rpc \in {"call", "wait", "sleep"}
  /\ Len(results) > 0
  /\ Len(results) < TotalDirections
  /\ sent.header = published[1].data
  /\ sent.stops = Cached
  /\ Building # Cached

\* --------------------------------------------- who changes what is cached
\* C29: a step of handleArrivals, of whichever request, leaves cache.data,
\* the stops it reaches (every stored arrival time among them) and
\* cache.lastFetched as they were; they change only in a step of the write
\* section of refreshCache.
C29_HandlersLeaveCache ==
  [][/\ hpc' # hpc => (cache' = cache /\ Cached' = Cached)
     /\ (cache' # cache \/ Cached' # Cached) =>
          (rpc \in {"wstops", "wlast", "wtime"} /\ hpc' = hpc)
    ]_vars

\* A response with recalculated minutes has been sent from the snapshot the
\* cache holds, whose stored arrivals are as fetched, while another handler
\* is at work on its own copy.
C29_Witness ==
  /\ sent.n = 1
  /\ sent.stops = Cached
  /\ \E r \in Readers : hpc[r] = "project" /\ cachedData[r] = cache.data
  /\ \E x \in SentIndex :
       /\ Len(SentDir(x).Arrivals) > 0
       /\ SentDir(x).Arrivals[1].Minutes > 0
       /\ CachedDir(x).Arrivals[1].Minutes = 0
       /\ CachedDir(x).Arrivals[1].ArrivalTime = SentDir(x).Arrivals[1].ArrivalTime

\* ------------------------------------------------- snapshots stay as written
\* The arrays of the snapshots published so far.
PublishedArrays == {published[k].data.Stops.ptr : k \in 1..Len(published)}

\* C30: a published snapshot is never modified in place.  A cycle builds its
\* response in a fresh array, which neither the cache nor a handler nor an
\* earlier snapshot uses; the array of a published snapshot changes only by
\* being reclaimed once nothing refers to it; and the stops a handler's copy
\* reaches stay the same for as long as the handler holds the copy, also
\* across a cache write of a later cycle.
C30_NeverModifiedInPlace ==
  [][/\ (rpc \in {"begin", "idle"} /\ rpc' = "call") =>
          /\ response'.Stops.ptr
               \notin PublishedArrays \cup HandlerRoots(cachedData)
                        \cup {cache.data.Stops.ptr}
          /\ heap[response'.Stops.ptr] = << >>
     /\ \A p \in PublishedArrays : heap'[p] \in {heap[p], << >>}
     /\ \A r \in Readers :
          (cachedData[r].Stops.ptr # 0 /\ cachedData'[r].Stops = cachedData[r].Stops) =>
            /\ Elements(cachedData[r].Stops)' = Elements(cachedData[r].Stops)
            /\ Elements(cachedData[r].Stops) # << >>
    ]_vars

\* A response computed from the first cycle's snapshot, the copy of which
\* was taken before the second cycle wrote the cache, is sent after that
\* write: it is the filled first snapshot, not what the cache holds now.
C30_Witness ==
  /\ sent.n = 1
  /\ cycles = 2
  /\ sent.header = published[1].data
  /\ cache.data = published[2].data
  /\ Filled(sent.stops)
  /\ sent.stops # Cached

\* ------------------------------------------ fetching outside the cache lock
\* The refresh task is in the loops of refreshCache: about to issue an
\* upstream call, waiting for its reply, or in the pacing sleep after it.
Fetching == rpc \in {"call", "wait", "sleep"}

\* C31: the refresh task neither holds nor awaits the cache lock while an
\* upstream call or a pacing sleep is in progress: the write lock is held
\* only from cache.mu.Lock() to cache.mu.Unlock() around the final swap, and
\* awaited only inside cache.mu.Lock().  So while a cycle is fetching or
\* sleeping, a request that arrives at the serving server takes the read
\* lock at once, and a handler inside its read section leaves it at once.
C31_NoLockWhileFetching ==
  /\ mu.writer => rpc \in {"wstops", "wlast", "wtime", "unlock"}
  /\ mu.pending => rpc = "lockwait"
  /\ (Fetching \/ inflight > 0) =>
       /\ ~mu.writer /\ ~mu.pending
       /\ CanRLock
       /\ \A r \in Readers :
            /\ (mainPc = "serving" /\ hpc[r] = "idle") => ENABLED HandleRLock(r)
            /\ hpc[r] = "copying" => ENABLED HandleRUnlock(r)

\* While an upstream call of the second cycle is in flight, a handler is in
\* its read section and another request can be accepted.
C31_Witness ==
  /\ mainPc = "serving"
  /\ rpc = "wait"
  /\ inflight = 1
  /\ cycles = 1
  /\ \E r \in Readers : hpc[r] = "copying"
  /\ \E r \in Readers : hpc[r] = "idle" /\ ENABLED HandleRLock(r)

\* ------------------------------------------------- the scheduler goes on
\* A call of refreshCache is running; otherwise the refresh task is before
\* its first call or between two calls.
Refreshing == rpc \notin {"begin", "arm", "idle"}

\* C32: under the runtime's scheduling, with every upstream call returning
\* (a reply or an error), the process start leads to a first cycle; every
\* started cycle completes, whatever its calls returned: the cache is written,
\* the cycle is counted and the scheduler is idle again; from idle after
\* each completed cycle (within the cycles the model runs) a tick starts the
\* next cycle; and a handler that has accepted a request sends its response.
C32_SchedulerLiveness ==
  /\ (rpc = "begin") ~> Refreshing
  /\ \A k \in 0..(MaxCycles - 1) :
       (cycles = k /\ Refreshing) ~>
         (cycles = k + 1 /\ rpc = "idle" /\ Len(published) = k + 1 /\ ~mu.writer)
  /\ \A k \in 1..(MaxCycles - 1) :
       (cycles = k /\ rpc = "idle") ~> (cycles = k /\ Refreshing)
  /\ \A r \in Readers : (hpc[r] # "idle") ~> (hpc[r] = "idle")

\* Every cycle the model runs has completed although each of its calls
\* failed, the last of them started by a tick, and the server is serving.
C32_Witness ==
  /\ cycles = MaxCycles
  /\ rpc = "idle"
  /\ mainPc = "serving"
  /\ \A k \in 1..MaxCycles : ~published[k].ok
  /\ Cardinality(Positions("write")) = MaxCycles

\* ------------------------------------------------- one cycle at a time
\* The step executes make([]StopArrivals, ...): a call of refreshCache begins.
CycleBegins ==
  \E p \in DOMAIN heap :
    /\ heap'[p] = [i \in 1..Len(Stops) |-> ZeroStop]
    /\ heap'[p] # heap[p]

\* The step takes a tick out of ticker.C.
TickTaken == tickC = 1 /\ tickC' = 0

\* C33: refresh cycles never overlap.  A call of refreshCache begins only
\* when none is running: at process start, or from the idle ticker loop by
\* taking a tick; a tick that falls due while a cycle runs stays in ticker.C
\* (or is dropped) until that cycle has returned, and the next cycle begins
\* after it, however long the cycle took; the ticker exists, and a tick is
\* taken, only after the initial cycle has finished; and at most one
\* upstream request is in flight.
C33_CyclesNeverOverlap ==
  [][/\ CycleBegins =>
          /\ rpc \in {"begin", "idle"}
          /\ Refreshing'
          /\ rpc = "idle" => TickTaken
     /\ TickTaken => (rpc = "idle" /\ cycles >= 1 /\ CycleBegins)
     /\ (tickAt' # 0 \/ tickC' # 0) => (cycles >= 1 /\ rpc # "begin")
     /\ (Refreshing /\ Refreshing') => (cycles' = cycles /\ ~CycleBegins)
     /\ inflight' <= 1
    ]_vars

\* The second cycle has been running for longer than the refresh interval:
\* a tick fell due meanwhile and waits in ticker.C, and the cycle goes on
\* with an upstream request in flight.
C33_Witness ==
  /\ cycles >= 1
  /\ rpc = "wait"
  /\ tickC = 1
  /\ \E k \in Positions("call") :
       /\ trace[k].cycle = cycles + 1
       /\ clock - trace[k].at > RefreshIntervalMs

\* ------------------------------------------------------- order at startup
\* The time of the first cache write on record.
FirstWriteAt ==
  LET w == Positions("write")
  IN trace[CHOOSE k \in w : \A n \in w : k <= n].at

\* C34: the initial refresh cycle runs inside main, before anything else:
\* until it has returned main is in startCacheRefresher, no ticker exists
\* and no request is accepted; once main has left startCacheRefresher the
\* initial cycle has written the cache and the ticker is armed, its first
\* tick one refresh interval after the initial cycle returned at the
\* earliest; requests are accepted only by the serving server, so every
\* handler runs, and every response is sent, after the initial cache write.
C34_StartupOrdering ==
  /\ cycles = 0 => mainPc = "refresher"
  /\ mainPc = "refresher" =>
       /\ cycles = 0 \/ (cycles = 1 /\ rpc = "arm")
       /\ tickAt = 0 /\ tickC = 0
       /\ \A r \in Readers : hpc[r] = "idle"
  /\ mainPc # "refresher" =>
       /\ cycles >= 1
       /\ Positions("write") # {}
       /\ cache.lastFetched # ZeroTime /\ cache.data # ZeroData
       /\ tickAt >= FirstWriteAt + RefreshIntervalMs
       /\ rpc \notin {"begin", "arm"}
  /\ \A r \in Readers : hpc[r] # "idle" => mainPc = "serving"
  /\ sent.n = 1 => (sent.cycles >= 1 /\ sent.at >= FirstWriteAt)

\* The server is serving after the initial cycle alone: the ticker is armed
\* for one interval after that cycle's write, no tick has fallen due, and a
\* handler holds the read lock on the snapshot of the initial cycle.
C34_Witness ==
  /\ mainPc = "serving"
  /\ cycles = 1
  /\ rpc = "idle"
  /\ tickC = 0
  /\ tickAt = cache.lastFetched + RefreshIntervalMs
  /\ \E r \in Readers :
       /\ hpc[r] = "copying"
       /\ cachedData[r].Stops = published[1].data.Stops
====
